---- MODULE Spec2Model ----
(***************************************************************************)
(* A model of the Mayastor data-plane core: the nexus child lifecycle and  *)
(* I/O fan-out, the NVMe device handle and its I/O channel, and the nexus  *)
(* GPT label.  Each part has its own specification over the shared state;  *)
(* the parts it does not exercise stay at their initial value.             *)
(***************************************************************************)
EXTENDS Integers, Sequences, FiniteSets, TLC

VARIABLES
    \* ---- nexus (nexus_bdev_children.rs) ----
    children,      \* Nexus::children: map key -> NexusChild (NoChild: no entry)
    child_count,   \* Nexus::child_count
    bdevs,         \* names of the block devices that currently exist
    jobs,          \* rebuild job registry, keyed by destination
    chan,          \* children the per-core I/O channels fan out to
    unsynced,      \* added children whose rebuild has not completed (history)
    lastOp,        \* the last nexus operation and what it returned (history)
    \* ---- nexus I/O path, error store, handle retries ----
    io,            \* the nexus I/O in flight (NoIo: none)
    inject,        \* failures injected per child device (the tests' error bdev)
    errs,          \* per child: error records inside the retention window
    cfg,           \* error store configuration, fixed at init
    \* ---- NVMe device handle and its I/O channel (nvmx/handle.rs) ----
    qpair,         \* NvmeIoChannelInner::qpair is live (FALSE: cleared)
    num_io,        \* the channel's counter of I/Os in flight
    pool_free,     \* free I/O contexts of IOCTX_POOL
    driver,        \* commands the driver accepted and has not completed
    cbs,           \* per callback argument: invocations and last status
    rets,          \* per callback argument: what the call returned
    next_arg,      \* the callback argument of the next call
    lastCall,      \* the last call on the handle (history)
    rst,           \* the controller reset in progress or last finished
    \* ---- nexus label of one child (nexus_label.rs) ----
    geom,          \* the child's block device: block length, blocks, uuid
    disk,          \* the child's disk: byte offset -> serialised object
    label,         \* what new_label returned last
    wrote,         \* what write_label returned for that label
    probed,        \* what probe_label returned since the last write
    written,       \* the label write_label was given and its write_at calls
    \* ---- labels of the children of one nexus (nexus_label.rs) ----
    kids,          \* the children: block device, backend, disk, index
    nlabel,        \* the nexus: size, block length, data offset, block count
    \* ---- I/O channel of an NVMe controller (nvmx/channel.rs) ----
    nch,           \* the channel context and the driver resources it holds
    \* ---- dataset management command of a handle (nvmx/handle.rs) ----
    dsm,           \* the last unmap_blocks or write_zeroes and its ranges
    \* ---- signal handling of the environment (core/env.rs) ----
    sig,           \* the shutdown flag, the signal handlers and the master reactor
    \* ---- scatter-gather cursor of an I/O context (nvmx/handle.rs) ----
    sgl,           \* the iovec of an I/O context, its cursor and the segments handed out
    \* ---- registry of the NVMe controllers (NVME_CONTROLLERS) ----
    ctrlr,         \* whether the controller is registered, and the call count at its removal
    \* ---- locks of the children of a nexus (nexus_bdev_children.rs) ----
    lk             \* the nexus operation suspended at an await and the child locks it holds

nexusVars  == <<children, child_count, bdevs, jobs, chan, unsynced, lastOp>>
ioVars     == <<io, inject, errs, cfg>>
handleVars == <<qpair, num_io, pool_free, driver, cbs, rets, next_arg,
                lastCall, rst>>
\* the state outside the nexus
labelVars  == <<geom, disk, label, wrote, probed, written>>
nlVars     == <<kids, nlabel>>
chanVars   == <<nch>>
dsmVars    == <<dsm>>
sigVars    == <<sig>>
sglVars    == <<sgl>>
ctrlrVars  == <<ctrlr>>
lockVars   == <<lk>>
devVars    == <<handleVars, labelVars, nlVars, chanVars, dsmVars, sigVars, sglVars, ctrlrVars, lockVars>>
vars       == <<nexusVars, ioVars, devVars>>

(***************************************************************************)
(* Bounds of the model                                                     *)
(***************************************************************************)
MaxInitChildren == 2     \* children registered when the nexus is created
MaxErrors       == 2     \* err_store_opts.max_errors of the configuration
MaxRetries      == 2     \* largest set_retries(r) a handle is given
MaxCalls        == 4     \* calls made on the device handle
PoolSize        == 2     \* I/O contexts in the pool (IOCTX_POOL_SIZE, scaled)
BlockLen        == 4     \* block length of the namespace (scaled)
TinyBlocks      == 10    \* blocks of the device smaller than a partition table
SpareBlocks     == 8     \* blocks of the largest device beyond the minimum
MaxLabelKids    == 2     \* children of the nexus whose labels are created
MaxQpairs       == 3     \* queue pairs the driver allocates for the channel
MaxUnmapCalls   == 2     \* calls on the handle that unmaps
MaxSignals      == 3     \* signals delivered to the process
MaxIov          == 3     \* elements of the iovec of an I/O context
MaxIovLen       == 3     \* bytes of an element of the iovec

UriOrder  == <<"u1", "u2", "u3">>
Uris      == {UriOrder[i] : i \in 1..Len(UriOrder)}
\* the device that is added to the nexus while I/O is running
SpareUri  == UriOrder[Len(UriOrder)]
NexusName == "nexus0"
Keys      == Uris \cup {NexusName}

Reasons   == {"OutOfSync", "IoError", "RebuildFailed", "Timeout"}
\* the reasons a caller of fault_child passes in
FaultReasons == {"IoError", "Timeout"}

NoChild == [name |-> "none", state |-> "None", reason |-> "None"]
NoJob   == [src |-> "none", state |-> "None"]
NoOp    == [op |-> "none", arg |-> "none", res |-> "none", status |-> "none",
            reconf |-> FALSE]

\* what an operation of the nexus returned
Result(op, arg, res, st, reconf) ==
    [op |-> op, arg |-> arg, res |-> res, status |-> st, reconf |-> reconf]

Min(a, b) == IF a < b THEN a ELSE b

(***************************************************************************)
(* NexusChild (nexus_child.rs is not part of the sources: the transitions  *)
(* follow the child state diagram and the callers in                       *)
(* nexus_bdev_children.rs)                                                 *)
(***************************************************************************)
\* NexusChild::new: a child that is registered but not opened
NexusChild_new(name) == [name |-> name, state |-> "Init", reason |-> "None"]

\* NexusChild::open: Init -> Open
child_open(c) == [c EXCEPT !.state = "Open", !.reason = "None"]

\* NexusChild::fault(reason)
child_fault(c, reason) == [c EXCEPT !.state = "Faulted", !.reason = reason]

\* NexusChild::offline: the child is closed
child_offline(c) == [c EXCEPT !.state = "Closed", !.reason = "None"]

\* NexusChild::online: the child is opened again; it may require a rebuild
\* and so comes back out of sync (module comment, lines 8-13; online_child
\* starts the rebuild right after)
child_online(c) == [c EXCEPT !.state = "Faulted", !.reason = "OutOfSync"]

EmptyMap == [k \in Keys |-> NoChild]

insert(map, key, child) == [map EXCEPT ![key] = child]

OpenKeys(map) == {k \in Keys : map[k] # NoChild /\ map[k].state = "Open"}

MapKeys(map) == {k \in Keys : map[k] # NoChild}

\* Nexus::status: Faulted without any open child, Degraded when some child
\* is not open, Online otherwise
status(map) ==
    IF OpenKeys(map) = {} THEN "Faulted"
    ELSE IF OpenKeys(map) # MapKeys(map) THEN "Degraded"
    ELSE "Online"

\* Nexus::reconfigure: every per-core channel is rebuilt from the children
\* that are in the open state (module comment, lines 23-24)
reconfigure(map) == OpenKeys(map)

(***************************************************************************)
(* register_children: every child is inserted under the nexus name         *)
(***************************************************************************)
RECURSIVE register_from(_, _)
register_from(map, dev_name) ==
    IF dev_name = <<>> THEN map
    ELSE register_from(insert(map, NexusName, NexusChild_new(Head(dev_name))),
                       Tail(dev_name))

register_children(dev_name) ==
    [children |-> register_from(EmptyMap, dev_name),
     child_count |-> Len(dev_name)]

\* the children of a nexus whose construction succeeded are all open
open_all(map) ==
    [k \in Keys |-> IF map[k] = NoChild THEN NoChild ELSE child_open(map[k])]

(***************************************************************************)
(* Construction of a nexus: the children are registered and                *)
(* try_open_children opens them (lines 56-88, 389-464)                     *)
(***************************************************************************)
\* the block length of the device behind a uri
DevBlockLen(uri) == IF uri = SpareUri THEN 4096 ELSE 512

\* NexusChild::close: the descriptor is released
child_close(c) == [c EXCEPT !.state = "Closed", !.reason = "None"]

\* variant: the construction is failed whatever the opens returned
always_failed(error) == TRUE

\* line 426: the construction fails when some child failed to open
open_failed(error) == error # {}

\* lines 427-443: every name that child.open returned is looked up in the
\* children map and the child found under it is closed; a name that is not a
\* key of the map is only logged
close_opened(map, open) ==
    [k \in Keys |-> IF k \in open /\ map[k] # NoChild THEN child_close(map[k])
                    ELSE map[k]]

\* lines 392-408: the errors the first loop can return, over the orders in
\* which the map can be iterated
geometry_errors(map, devs) ==
    LET present == MapKeys(map)
        missing == {k \in present : map[k].name \notin devs}
        mixed == \E a \in present \ missing, b \in present \ missing :
                    DevBlockLen(map[a].name) # DevBlockLen(map[b].name)
    IN  (IF missing # {} THEN {"NexusIncomplete"} ELSE {})
            \cup (IF mixed THEN {"MixedBlockSizes"} ELSE {})

\* Nexus::register_children(dev_name), in the init phase of the nexus
nexus_register_children(dev_name) ==
    /\ lastOp.op # "try_open_children"
    /\ children' = register_from(children, dev_name)
    /\ child_count' = Len(dev_name)
    /\ lastOp' = Result("register_children", "none", "Ok", "none", FALSE)
    /\ UNCHANGED <<bdevs, jobs, chan, unsynced>>

\* Nexus::create_and_register(uri), in the init phase of the nexus
create_and_register(uri, create_ok) ==
    /\ lastOp.op # "try_open_children"
    /\ child_count <= MaxInitChildren
    /\ IF uri \in bdevs \/ ~create_ok
       THEN /\ lastOp' = Result("create_and_register", uri, "CreateBdev",
                                "none", FALSE)
            /\ UNCHANGED <<children, child_count, bdevs>>
       ELSE /\ bdevs' = bdevs \cup {uri}
            /\ children' = insert(children, NexusName, NexusChild_new(uri))
            /\ child_count' = child_count + 1
            /\ lastOp' = Result("create_and_register", uri, "Ok", "none", FALSE)
    /\ UNCHANGED <<jobs, chan, unsynced>>

\* Nexus::try_open_children.  opens: the keys of the children whose open
\* succeeds.  Without any child the unwrap of line 409 panics.
try_open_children(opens) ==
    /\ lastOp.op # "try_open_children"
    /\ opens \subseteq MapKeys(children)
    /\ LET errors == geometry_errors(children, bdevs)
           map1 == [k \in Keys |-> IF k \in opens THEN child_open(children[k])
                                   ELSE children[k]]
           open == {children[k].name : k \in opens}
           error == MapKeys(children) \ opens
       IN  IF errors # {}
           THEN /\ \E e \in errors :
                     lastOp' = Result("try_open_children", "none", e, "none",
                                      FALSE)
                /\ UNCHANGED children
           ELSE IF MapKeys(children) = {}
           THEN /\ lastOp' = Result("try_open_children", "none", "panic",
                                    "none", FALSE)
                /\ UNCHANGED children
           ELSE IF open_failed(error)
           THEN /\ children' = close_opened(map1, open)
                /\ lastOp' = Result("try_open_children", "none",
                                    "NexusIncomplete", "none", FALSE)
           ELSE /\ children' = map1
                /\ lastOp' = Result("try_open_children", "none", "Ok", "none",
                                    FALSE)
    /\ UNCHANGED <<child_count, bdevs, jobs, chan, unsynced>>

(***************************************************************************)
(* Rebuild jobs (the rebuild engine is not part of the sources)            *)
(***************************************************************************)
NoJobs == [d \in Uris |-> NoJob]

\* the healthy child a rebuild copies from: an open child other than dst
Sources(map, dst) == {map[k].name : k \in {x \in OpenKeys(map) : map[x].name # dst}}

healthy_source(map, dst) == CHOOSE s \in Sources(map, dst) : TRUE

\* variant: a job is started over an existing job of the destination
can_restart_rebuild(map, js, dst) ==
    /\ dst \in Uris
    /\ map[dst] # NoChild
    /\ Sources(map, dst) # {}

\* a rebuild of dst can start when dst is a child, no job is registered for
\* it and a healthy child can serve as the source
can_start_rebuild(map, js, dst) ==
    /\ dst \in Uris
    /\ map[dst] # NoChild
    /\ js[dst] = NoJob
    /\ Sources(map, dst) # {}

\* Nexus::start_rebuild(dst), when it succeeds
start_rebuild(map, js, dst) ==
    [js EXCEPT ![dst] = [src |-> healthy_source(map, dst), state |-> "Running"]]

\* Nexus::cancel_child_rebuild_jobs(name): stops the jobs that have the child
\* as source or as destination, returns the destinations of the former
cancel_child_rebuild_jobs(js, name) ==
    [jobs |-> [d \in Uris |->
                 IF js[d] # NoJob /\ (js[d].src = name \/ d = name)
                 THEN NoJob ELSE js[d]],
     cancelled |-> {d \in Uris : js[d] # NoJob /\ js[d].src = name /\ d # name}]

\* Nexus::start_rebuild_jobs(destinations): failures to start are only logged
start_rebuild_jobs(map, js, dsts) ==
    [d \in Uris |->
        IF d \in dsts /\ can_start_rebuild(map, js, d)
        THEN [src |-> healthy_source(map, d), state |-> "Running"]
        ELSE js[d]]

(***************************************************************************)
(* Nexus operations (nexus_bdev_children.rs)                               *)
(***************************************************************************)
\* variant: the new child is inserted open, without being marked out of sync
add_child_only_map_open(map, uri) ==
    insert(map, uri, child_open(NexusChild_new(uri)))

\* add_child_only, lines 167-189: the new child is opened, faulted as out of
\* sync and inserted under its own name
add_child_only_map(map, uri) ==
    insert(map, uri, child_fault(child_open(NexusChild_new(uri)), "OutOfSync"))

\* variant: a rebuild that failed to start leaves the child as it was added
rebuild_start_ignored(c) == c

\* add_child, lines 107-117: the child whose rebuild failed to start is
\* faulted with RebuildFailed
rebuild_not_started(c) == child_fault(c, "RebuildFailed")

AddOutcomes == {"create_failed", "geometry", "missing", "open_failed", "ok"}

\* Nexus::add_child(uri, norebuild).  outcome: what the environment does to
\* bdev_create, the geometry check, the lookup and the open; rebuild_ok:
\* whether start_rebuild can start the job.
add_child(uri, norebuild, outcome, rebuild_ok) ==
    IF uri \in bdevs \/ outcome = "create_failed" THEN
        \* bdev_create fails (the device exists already, or cannot be created)
        /\ lastOp' = Result("add_child", uri, "CreateChild", "none", FALSE)
        /\ UNCHANGED <<children, child_count, bdevs, jobs, chan, unsynced>>
    ELSE IF outcome = "geometry" THEN
        \* wrong geometry: the created device is destroyed again
        /\ lastOp' = Result("add_child", uri, "ChildGeometry", "none", FALSE)
        /\ UNCHANGED <<children, child_count, bdevs, jobs, chan, unsynced>>
    ELSE IF outcome = "missing" THEN
        \* the created device is not found: returns without destroying it
        /\ bdevs' = bdevs \cup {uri}
        /\ lastOp' = Result("add_child", uri, "ChildMissing", "none", FALSE)
        /\ UNCHANGED <<children, child_count, jobs, chan, unsynced>>
    ELSE IF outcome = "open_failed" THEN
        /\ lastOp' = Result("add_child", uri, "OpenChild", "none", FALSE)
        /\ UNCHANGED <<children, child_count, bdevs, jobs, chan, unsynced>>
    ELSE
        LET map1    == add_child_only_map(children, uri)
            started == ~norebuild /\ rebuild_ok
                       /\ can_start_rebuild(map1, jobs, uri)
            map2    == IF norebuild \/ started \/ map1[uri] = NoChild THEN map1
                       ELSE [map1 EXCEPT ![uri] = rebuild_not_started(@)]
        IN  /\ children' = map2
            /\ child_count' = child_count + 1
            /\ bdevs' = bdevs \cup {uri}
            /\ jobs' = IF started THEN start_rebuild(map1, jobs, uri) ELSE jobs
            /\ unsynced' = unsynced \cup {uri}
            /\ lastOp' = Result("add_child", uri, "Ok", status(map1), FALSE)
            /\ UNCHANGED chan

\* Nexus::remove_child(uri)
remove_child(uri, close_ok) ==
    IF child_count = 1 THEN
        /\ lastOp' = Result("remove_child", uri, "DestroyLastChild", "none", FALSE)
        /\ UNCHANGED <<children, child_count, bdevs, jobs, chan, unsynced>>
    ELSE
        LET c == cancel_child_rebuild_jobs(jobs, uri) IN
        IF children[uri] = NoChild THEN
            /\ jobs' = c.jobs
            /\ lastOp' = Result("remove_child", uri, "Ok", "none", FALSE)
            /\ UNCHANGED <<children, child_count, bdevs, chan, unsynced>>
        ELSE IF ~close_ok THEN
            /\ jobs' = c.jobs
            /\ lastOp' = Result("remove_child", uri, "CloseChild", "none", FALSE)
            /\ UNCHANGED <<children, child_count, bdevs, chan, unsynced>>
        ELSE
            LET map1 == insert(children, uri, NoChild) IN
            /\ children' = map1
            /\ child_count' = child_count - 1
            /\ bdevs' = bdevs \ {children[uri].name}
            /\ jobs' = start_rebuild_jobs(map1, c.jobs, c.cancelled)
            /\ unsynced' = unsynced \ {uri}
            /\ lastOp' = Result("remove_child", uri, "Ok", "none", FALSE)
            /\ UNCHANGED chan

\* variant: the status taken before the child went offline
offline_child_status_before(before, after) == status(before)

\* what offline_child returns: the status after the child went offline and
\* the channels were reconfigured (line 273)
offline_child_status(before, after) == status(after)

\* Nexus::offline_child(name)
offline_child(name) ==
    LET c == cancel_child_rebuild_jobs(jobs, name) IN
    IF children[name] = NoChild THEN
        /\ jobs' = c.jobs
        /\ lastOp' = Result("offline_child", name, "ChildNotFound", "none", FALSE)
        /\ UNCHANGED <<children, child_count, bdevs, chan, unsynced>>
    ELSE
        LET map1 == [children EXCEPT ![name] = child_offline(@)] IN
        /\ children' = map1
        /\ chan' = reconfigure(map1)
        /\ jobs' = start_rebuild_jobs(map1, c.jobs, c.cancelled)
        /\ lastOp' = Result("offline_child", name, "Ok",
                            offline_child_status(children, map1), TRUE)
        /\ UNCHANGED <<child_count, bdevs, unsynced>>

\* fault_child, lines 291-305: the last healthy child cannot be faulted
last_healthy(map, name) ==
    /\ Cardinality(OpenKeys(map)) = 1
    /\ \E k \in OpenKeys(map) : map[k].name = name

\* Nexus::fault_child(name, reason)
fault_child(name, reason) ==
    IF child_count < 2 THEN
        /\ lastOp' = Result("fault_child", name, "RemoveLastChild", "none", FALSE)
        /\ UNCHANGED <<children, child_count, bdevs, jobs, chan, unsynced>>
    ELSE IF last_healthy(children, name) THEN
        /\ lastOp' = Result("fault_child", name, "FaultingLastHealthyChild",
                            "none", FALSE)
        /\ UNCHANGED <<children, child_count, bdevs, jobs, chan, unsynced>>
    ELSE
        LET c == cancel_child_rebuild_jobs(jobs, name) IN
        IF children[name] = NoChild THEN
            /\ jobs' = start_rebuild_jobs(children, c.jobs, c.cancelled)
            /\ lastOp' = Result("fault_child", name, "ChildNotFound", "none", FALSE)
            /\ UNCHANGED <<children, child_count, bdevs, chan, unsynced>>
        ELSE IF children[name].state = "Faulted" THEN
            /\ jobs' = start_rebuild_jobs(children, c.jobs, c.cancelled)
            /\ lastOp' = Result("fault_child", name, "Ok", "none", FALSE)
            /\ UNCHANGED <<children, child_count, bdevs, chan, unsynced>>
        ELSE
            LET map1 == [children EXCEPT ![name] = child_fault(@, reason)] IN
            /\ children' = map1
            /\ chan' = reconfigure(map1)
            /\ jobs' = start_rebuild_jobs(map1, c.jobs, c.cancelled)
            /\ lastOp' = Result("fault_child", name, "Ok", "none", TRUE)
            /\ UNCHANGED <<child_count, bdevs, unsynced>>

\* Nexus::online_child(name)
online_child(name, open_ok, rebuild_ok) ==
    IF children[name] = NoChild THEN
        /\ lastOp' = Result("online_child", name, "ChildNotFound", "none", FALSE)
        /\ UNCHANGED <<children, child_count, bdevs, jobs, chan, unsynced>>
    ELSE IF children[name].state = "Open" \/ ~open_ok THEN
        /\ lastOp' = Result("online_child", name, "OpenChild", "none", FALSE)
        /\ UNCHANGED <<children, child_count, bdevs, jobs, chan, unsynced>>
    ELSE
        LET map1    == [children EXCEPT ![name] = child_online(@)]
            started == rebuild_ok /\ can_start_rebuild(map1, jobs, name)
        IN  /\ children' = map1
            /\ jobs' = IF started THEN start_rebuild(map1, jobs, name) ELSE jobs
            /\ lastOp' = IF started
                         THEN Result("online_child", name, "Ok", status(map1), FALSE)
                         ELSE Result("online_child", name, "RebuildFailed",
                                     "none", FALSE)
            /\ UNCHANGED <<child_count, bdevs, chan, unsynced>>

\* Nexus::start_rebuild(dst), called on its own (tests/nexus_rebuild.rs,
\* lines 230, 279-282)
nexus_start_rebuild(dst) ==
    /\ IF can_start_rebuild(children, jobs, dst)
       THEN /\ jobs' = start_rebuild(children, jobs, dst)
            /\ lastOp' = Result("start_rebuild", dst, "Ok", "none", FALSE)
       ELSE /\ lastOp' = Result("start_rebuild", dst, "RebuildFailed", "none",
                                FALSE)
            /\ UNCHANGED jobs
    /\ UNCHANGED <<children, child_count, bdevs, chan, unsynced>>

\* Nexus::pause_rebuild(dst) (tests/nexus_rebuild.rs, line 272): the running
\* job of dst is paused and stays registered
pause_rebuild(dst) ==
    /\ IF dst \in Uris /\ jobs[dst] # NoJob
       THEN /\ jobs' = [jobs EXCEPT ![dst].state = "Paused"]
            /\ lastOp' = Result("pause_rebuild", dst, "Ok", "none", FALSE)
       ELSE /\ lastOp' = Result("pause_rebuild", dst, "RebuildJobNotFound",
                                "none", FALSE)
            /\ UNCHANGED jobs
    /\ UNCHANGED <<children, child_count, bdevs, chan, unsynced>>

\* a running rebuild job reaches Completed: the destination becomes Open and
\* the nexus is reconfigured
rebuild_completed(dst) ==
    /\ jobs[dst] # NoJob
    /\ jobs[dst].state = "Running"
    /\ jobs[dst].src \in Sources(children, dst)
    /\ children[dst] # NoChild
    /\ LET map1 == [children EXCEPT ![dst] = child_open(@)] IN
        /\ children' = map1
        /\ chan' = reconfigure(map1)
        /\ lastOp' = Result("rebuild_completed", dst, "Ok", status(map1), TRUE)
    /\ jobs' = [jobs EXCEPT ![dst] = NoJob]
    /\ unsynced' = unsynced \ {dst}
    /\ UNCHANGED <<child_count, bdevs>>

\* a rebuild job reaches Failed: the destination is Faulted(RebuildFailed)
rebuild_failed(dst) ==
    /\ jobs[dst] # NoJob
    /\ children[dst] # NoChild
    /\ children' = [children EXCEPT ![dst] = child_fault(@, "RebuildFailed")]
    /\ jobs' = [jobs EXCEPT ![dst] = NoJob]
    /\ lastOp' = Result("rebuild_failed", dst, "Ok", "none", FALSE)
    /\ UNCHANGED <<child_count, bdevs, chan, unsynced>>

(***************************************************************************)
(* Nexus I/O path: fan-out, error store and handle retries (nexus_io and   *)
(* the error store are not part of the sources; modelled after section     *)
(* "I/O fan-out", "Error store" and the tests io_retry.rs and              *)
(* error_fault_child.rs)                                                   *)
(***************************************************************************)
NoIo == [kind |-> "none", r |-> 0, attempt |-> 0, targets |-> {},
         pending |-> {}, failed |-> FALSE, hit |-> FALSE,
         fails |-> 0, injfails |-> 0,
         result |-> "none", signalled |-> 0]

NoInject == [dev |-> "none", n |-> 0]

ErrActions == {"Ignore", "Fault"}

\* the children a nexus I/O is dispatched to: a write goes to every child of
\* the channel, a read to one of them
dispatch_sets(kind, ch) ==
    IF ch = {} THEN {{}}
    ELSE IF kind = "write" THEN {ch}
    ELSE {{k} : k \in ch}

\* variant: the nexus I/O completes on the first response
first_responded(pending) == TRUE

\* the nexus I/O completes when every dispatched child has responded
all_responded(pending) == pending = {}

\* the result signalled to the initiator
io_result(failed) == IF failed THEN "fail" ELSE "ok"

\* variant: a handle that never resubmits
never_retry(attempt, r) == FALSE

\* BdevHandle retries: a failed attempt is resubmitted while fewer than r
\* attempts were made
may_retry(attempt, r) == attempt < r

\* the error store policy: Fault once the records exceed max_errors
policy_faults(action, nerrs) == action = "Fault" /\ nerrs > MaxErrors

\* one attempt of the I/O is submitted on channel ch
submit(rec, tg) ==
    IF tg = {} THEN
        \* no child to dispatch to
        IF may_retry(rec.attempt + 1, rec.r)
        THEN [rec EXCEPT !.attempt = @ + 1, !.fails = @ + 1,
                         !.targets = {}, !.pending = {}, !.failed = TRUE]
        ELSE [rec EXCEPT !.attempt = @ + 1, !.fails = @ + 1,
                         !.targets = {}, !.pending = {}, !.failed = TRUE,
                         !.result = "fail", !.signalled = @ + 1]
    ELSE [rec EXCEPT !.attempt = @ + 1, !.targets = tg, !.pending = tg,
                     !.failed = FALSE, !.hit = FALSE]

\* BdevHandle::read_at / write_at on the nexus with set_retries(r)
nexus_io(kind, r) ==
    /\ io = NoIo
    /\ \E tg \in dispatch_sets(kind, chan) :
         io' = submit([NoIo EXCEPT !.kind = kind, !.r = r], tg)
    /\ UNCHANGED <<nexusVars, inject, errs, cfg>>

\* the completion of the I/O of child t
child_response(t) ==
    /\ io.result = "none"
    /\ t \in io.pending
    /\ LET stale == children[t] = NoChild \/ children[t].state = "Closed"
           name  == children[t].name
           inj   == ~stale /\ inject.dev = name /\ inject.n > 0
           bad   == stale \/ inj
           nerrs == IF inj /\ errs[name] <= MaxErrors
                    THEN errs[name] + 1 ELSE errs[name]
           rec1  == [io EXCEPT !.pending = @ \ {t}, !.failed = @ \/ bad,
                               !.hit = @ \/ inj]
       IN
       /\ inject' = IF ~inj THEN inject
                    ELSE IF inject.n = 1 THEN NoInject
                    ELSE [inject EXCEPT !.n = @ - 1]
       /\ errs' = IF inj THEN [errs EXCEPT ![name] = nerrs] ELSE errs
       /\ IF inj /\ policy_faults(cfg, nerrs)
          THEN fault_child(name, "IoError")
          ELSE UNCHANGED nexusVars
       /\ IF ~all_responded(rec1.pending) THEN io' = rec1
          ELSE IF ~rec1.failed THEN
              io' = [rec1 EXCEPT !.result = io_result(rec1.failed),
                                 !.signalled = @ + 1]
          ELSE
              LET rec2 == [rec1 EXCEPT !.fails = @ + 1,
                              !.injfails = IF rec1.hit THEN @ + 1 ELSE @]
              IN
              IF may_retry(rec2.attempt, rec2.r)
              THEN \E tg \in dispatch_sets(io.kind, chan') : io' = submit(rec2, tg)
              ELSE io' = [rec2 EXCEPT !.result = io_result(rec2.failed),
                                      !.signalled = @ + 1]
    /\ UNCHANGED cfg

\* the initiator has seen the result
io_done ==
    /\ io.result # "none"
    /\ io' = NoIo
    /\ UNCHANGED <<nexusVars, inject, errs, cfg>>

\* inject_error(device, n): the next n I/Os of the device fail
inject_error(dev, n) ==
    /\ io = NoIo
    /\ inject.n = 0
    /\ dev \in {children[k].name : k \in MapKeys(children)}
    /\ errs[dev] + n <= MaxErrors + 1
    /\ \A d \in Uris \ {dev} : errs[d] = 0
    /\ inject' = [dev |-> dev, n |-> n]
    /\ UNCHANGED <<nexusVars, io, errs, cfg>>

\* the oldest error record of a child leaves the retention window
expire(dev) ==
    /\ errs[dev] > 0
    /\ errs' = [errs EXCEPT ![dev] = @ - 1]
    /\ UNCHANGED <<nexusVars, io, inject, cfg>>

(***************************************************************************)
(* NVMe device handle (nvmx/handle.rs) and I/O channel (nvmx/channel.rs)   *)
(***************************************************************************)
\* errno values of libc
EINVAL == 22
ENODEV == 19
ENOMEM == 12

\* SPDK_NVME_DATASET_MANAGEMENT_MAX_RANGES
MAX_RANGES == 256

Args == 1..MaxCalls

NoCall == [arg |-> 0, op |-> "none", valid |-> FALSE, qp |-> FALSE,
           res |-> "none", err |-> "none"]
NoCb   == [n |-> 0, status |-> "none"]
NoRet  == [kind |-> "none", res |-> "none"]
NoReset == [state |-> "idle", arg |-> 0, args |-> {}, aborted |-> 0]

\* a command accepted by the driver; ctx: it carries an NvmeIoCtx of the pool
Cmd(arg, ctx) == [arg |-> arg, ctx |-> ctx, aborted |-> FALSE]

CtxCmds(cmds) == {c \in cmds : c.ctx}

\* NvmeDeviceHandle::bytes_to_blocks: <<aligned, offset_blocks, num_blocks>>
bytes_to_blocks(offset_bytes, num_bytes) ==
    << (offset_bytes % BlockLen) = 0 /\ (num_bytes % BlockLen) = 0,
       offset_bytes \div BlockLen,
       num_bytes \div BlockLen >>

\* check_io_args: the errno, 0 when the I/O vector looks sane
check_io_args(iovcnt, base_null) ==
    IF iovcnt <= 0 THEN EINVAL
    ELSE IF base_null THEN EINVAL
    ELSE 0

\* unmap_blocks, lines 855-865: a block count of full ranges of
\* RANGE_MAX_BLOCKS blocks and possibly a partial one needs
\* (num_blocks + RANGE_MAX_BLOCKS - 1) / RANGE_MAX_BLOCKS ranges
num_ranges(full, partial) == full + (IF partial THEN 1 ELSE 0)

check_unmap_args(full, partial) ==
    IF num_ranges(full, partial) > MAX_RANGES THEN EINVAL ELSE 0

\* variant: a channel check that lets every I/O through
check_channel_never(qp) == 0

\* check_channel_for_io: ENODEV while the queue pair is cleared
check_channel_for_io(qp) == IF ~qp THEN ENODEV ELSE 0

\* alloc_nvme_io_ctx: ENOMEM when the pool is exhausted
alloc_nvme_io_ctx(free) == IF free > 0 THEN 0 ELSE ENOMEM

ErrName(errno) ==
    IF errno = EINVAL THEN "EINVAL"
    ELSE IF errno = ENODEV THEN "ENODEV"
    ELSE IF errno = ENOMEM THEN "ENOMEM"
    ELSE "other"

\* the calls that take an I/O context and a completion callback
CtxCalls == {"readv_blocks", "writev_blocks", "unmap_blocks", "write_zeroes"}

\* the I/O calls of a handle
IoCalls == CtxCalls \cup {"read_at", "write_at"}

CallKind(op) ==
    IF op \in CtxCalls THEN "ctx" ELSE IF op = "reset" THEN "reset" ELSE "await"

\* the call with callback argument a returns res
Returned(a, op, valid, res, err) ==
    /\ next_arg' = a + 1
    /\ rets' = [rets EXCEPT ![a] = [kind |-> CallKind(op), res |-> res]]
    /\ lastCall' = [arg |-> a, op |-> op, valid |-> valid, qp |-> qpair,
                    res |-> res, err |-> err]

\* readv_blocks, writev_blocks (lines 629-688, 706-765) and unmap_blocks
\* (lines 871-949) after their argument check: argerr is the errno of that
\* check, rc what the driver's submit routine returns
dispatch_with_ctx(name, argerr, rc) ==
    LET a == next_arg IN
    /\ a <= MaxCalls
    /\ UNCHANGED <<qpair, cbs, rst>>
    /\ IF argerr # 0 THEN
           /\ Returned(a, name, FALSE, "Err", ErrName(argerr))
           /\ UNCHANGED <<num_io, pool_free, driver>>
       ELSE IF check_channel_for_io(qpair) # 0 THEN
           /\ Returned(a, name, TRUE, "Err",
                       ErrName(check_channel_for_io(qpair)))
           /\ UNCHANGED <<num_io, pool_free, driver>>
       ELSE IF alloc_nvme_io_ctx(pool_free) # 0 THEN
           /\ Returned(a, name, TRUE, "Err",
                       ErrName(alloc_nvme_io_ctx(pool_free)))
           /\ UNCHANGED <<num_io, pool_free, driver>>
       ELSE
           /\ pool_free' = pool_free - 1
           /\ IF rc < 0 THEN
                  \* the Dispatch error is returned with the context taken
                  /\ Returned(a, name, TRUE, "Err", ErrName(-rc))
                  /\ UNCHANGED <<num_io, driver>>
              ELSE
                  /\ driver' = driver \cup {Cmd(a, TRUE)}
                  /\ num_io' = num_io + 1
                  /\ Returned(a, name, TRUE, "Ok", "none")

readv_blocks(iovcnt, base_null, rc) ==
    dispatch_with_ctx("readv_blocks", check_io_args(iovcnt, base_null), rc)

writev_blocks(iovcnt, base_null, rc) ==
    dispatch_with_ctx("writev_blocks", check_io_args(iovcnt, base_null), rc)

unmap_blocks(full, partial, rc) ==
    dispatch_with_ctx("unmap_blocks", check_unmap_args(full, partial), rc)

\* write_zeroes is done through unmap_blocks
write_zeroes(full, partial, rc) ==
    dispatch_with_ctx("write_zeroes", check_unmap_args(full, partial), rc)

\* read_at and write_at (lines 467-611): the call is pending until the
\* driver completes the command
rw_at(name, offset, len, rc) ==
    LET a == next_arg IN
    /\ a <= MaxCalls
    /\ UNCHANGED <<qpair, cbs, rst, pool_free>>
    /\ IF ~bytes_to_blocks(offset, len)[1] THEN
           /\ Returned(a, name, FALSE, "Err", "InvalidOffset")
           /\ UNCHANGED <<num_io, driver>>
       ELSE IF check_channel_for_io(qpair) # 0 THEN
           /\ Returned(a, name, TRUE, "Err",
                       ErrName(check_channel_for_io(qpair)))
           /\ UNCHANGED <<num_io, driver>>
       ELSE IF rc # 0 /\ rc # -ENOMEM THEN
           /\ Returned(a, name, TRUE, "Err", "Failed")
           /\ UNCHANGED <<num_io, driver>>
       ELSE
           \* with -ENOMEM nothing was queued, yet the call awaits completion
           /\ driver' = IF rc = 0 THEN driver \cup {Cmd(a, FALSE)} ELSE driver
           /\ num_io' = num_io + 1
           /\ Returned(a, name, TRUE, "Pending", "none")

read_at(offset, len, rc) == rw_at("read_at", offset, len, rc)

write_at(offset, len, rc) == rw_at("write_at", offset, len, rc)

\* nvme_admin (nvme_identify_ctrlr): the return value rc of the driver is
\* ignored, so the call counts an I/O and awaits whatever the driver returned
nvme_admin(rc) ==
    LET a == next_arg IN
    /\ a <= MaxCalls
    /\ UNCHANGED <<qpair, cbs, rst, pool_free>>
    /\ IF ~qpair THEN
           /\ Returned(a, "nvme_admin", TRUE, "Err", "ENODEV")
           /\ UNCHANGED <<num_io, driver>>
       ELSE
           /\ driver' = IF rc = 0 THEN driver \cup {Cmd(a, FALSE)} ELSE driver
           /\ num_io' = num_io + 1
           /\ Returned(a, "nvme_admin", TRUE, "Pending", "none")

\* variant: the completion keeps the I/O context
pool_keep(free) == free

\* IOCTX_POOL.put, line 272
pool_put(free) == free + 1

\* inner.discard_io, line 260: one I/O less in flight
discard_io(n) == n - 1

\* IoCompletionStatus of a completion, lines 263-271 and 430-436
completion_status(succeeded) == IF succeeded THEN "Success" ELSE "NvmeError"

\* the driver completes command c: complete_nvme_command (lines 247-273)
\* for the commands with an I/O context, the awaiting read_at, write_at
\* or nvme_admin otherwise.  An aborted command never succeeds.
io_completed(c, succeeded) ==
    /\ c \in driver
    /\ c.aborted => ~succeeded
    /\ driver' = driver \ {c}
    /\ num_io' = discard_io(num_io)
    /\ IF c.ctx THEN
           /\ cbs' = [cbs EXCEPT ![c.arg] =
                        [n |-> @.n + 1, status |-> completion_status(succeeded)]]
           /\ pool_free' = pool_put(pool_free)
           /\ UNCHANGED rets
       ELSE
           /\ rets' = [rets EXCEPT ![c.arg].res = IF succeeded THEN "Ok" ELSE "Err"]
           /\ UNCHANGED <<cbs, pool_free>>
    /\ rst' = IF c.aborted /\ c.ctx THEN [rst EXCEPT !.aborted = @ + 1] ELSE rst
    /\ UNCHANGED <<qpair, next_arg, lastCall>>

\* NvmeDeviceHandle::reset (lines 822-846).  The controller reset it
\* schedules clears the queue pair of the channel and aborts the commands in
\* flight (NvmeController is not part of the sources).
reset(found) ==
    LET a == next_arg IN
    /\ a <= MaxCalls
    /\ rst.state # "running"
    /\ IF ~found THEN
           /\ Returned(a, "reset", TRUE, "Err", "BdevNotFound")
           /\ UNCHANGED <<qpair, driver, rst>>
       ELSE
           /\ qpair' = FALSE
           /\ driver' = {[c EXCEPT !.aborted = TRUE] : c \in driver}
           /\ rst' = [state |-> "running", arg |-> a,
                      args |-> {c.arg : c \in CtxCmds(driver)}, aborted |-> 0]
           /\ Returned(a, "reset", TRUE, "Ok", "none")
    /\ UNCHANGED <<num_io, pool_free, cbs>>

\* variant: a reset that does not wait for the aborted commands
reset_never_waits(cmds) == TRUE

\* the reset finishes once every aborted command has been completed
reset_may_finish(cmds) == cmds = {}

\* NvmeIoChannelInner::reinitialize: the queue pair is set when the driver
\* could allocate, add and connect it (rc = 0)
reinitialize(qp, rc) == IF rc = 0 THEN TRUE ELSE qp

\* the controller reset finishes: the channel is reinitialized and
\* reset_callback (lines 426-439) passes the outcome to the caller
reset_done(rc) ==
    /\ rst.state = "running"
    /\ reset_may_finish(driver)
    /\ qpair' = reinitialize(qpair, rc)
    /\ cbs' = [cbs EXCEPT ![rst.arg] =
                 [n |-> @.n + 1, status |-> completion_status(rc = 0)]]
    /\ rst' = [rst EXCEPT !.state = "done"]
    /\ UNCHANGED <<num_io, pool_free, driver, rets, next_arg, lastCall>>

\* NvmeDeviceHandle::create: the pool is initialised, the channel has a
\* connected queue pair
InitHandle ==
    /\ qpair = TRUE
    /\ num_io = 0
    /\ pool_free = PoolSize
    /\ driver = {}
    /\ cbs = [a \in Args |-> NoCb]
    /\ rets = [a \in Args |-> NoRet]
    /\ next_arg = 1
    /\ lastCall = NoCall
    /\ rst = NoReset

(***************************************************************************)
(* Dataset management ranges of unmap_blocks (nvmx/handle.rs, lines        *)
(* 848-950).  The block numbers are u64 values, kept as four 16-bit digits *)
(* with the least significant digit first, so that the arithmetic of the   *)
(* code is done at its width.                                              *)
(***************************************************************************)
\* the element of a one-element set: The({e(x) : x \in {v}}) is e(v), with v
\* computed once
The(S) == CHOOSE x \in S : TRUE

U16 == 2^16

\* the u64 of a small number
u64(n) == <<n % U16, n \div U16, 0, 0>>

\* a + b on 64 bits: the wrapped sum and the carry out of bit 63
add_carry(a, b) ==
    LET s1 == a[1] + b[1]
        s2 == a[2] + b[2] + (s1 \div U16)
        s3 == a[3] + b[3] + (s2 \div U16)
        s4 == a[4] + b[4] + (s3 \div U16)
    IN  [val |-> <<s1 % U16, s2 % U16, s3 % U16, s4 % U16>>,
         carry |-> s4 \div U16]

wrapping_add(a, b) == add_carry(a, b).val

\* a - b on 64 bits: the wrapped difference and the borrow
sub_borrow(a, b) ==
    LET t1 == a[1] - b[1]
        b1 == IF t1 < 0 THEN 1 ELSE 0
        t2 == a[2] - b[2] - b1
        b2 == IF t2 < 0 THEN 1 ELSE 0
        t3 == a[3] - b[3] - b2
        b3 == IF t3 < 0 THEN 1 ELSE 0
        t4 == a[4] - b[4] - b3
        b4 == IF t4 < 0 THEN 1 ELSE 0
    IN  [val |-> <<t1 + b1 * U16, t2 + b2 * U16, t3 + b3 * U16, t4 + b4 * U16>>,
         borrow |-> b4]

wrapping_sub(a, b) == sub_borrow(a, b).val

\* a > b
gt(a, b) == sub_borrow(b, a).borrow = 1

\* SPDK_NVME_DATASET_MANAGEMENT_RANGE_MAX_BLOCKS = 0xFFFFFFFF
RANGE_MAX_BLOCKS == <<U16 - 1, U16 - 1, 0, 0>>

\* x / RANGE_MAX_BLOCKS.  With x = hi * 2^32 + lo and 2^32 =
\* RANGE_MAX_BLOCKS + 1, x = hi * RANGE_MAX_BLOCKS + (hi + lo), and hi + lo
\* holds RANGE_MAX_BLOCKS at most twice.
div_range_max(x) ==
    LET hi == <<x[3], x[4], 0, 0>>
        lo == <<x[1], x[2], 0, 0>>
        s  == wrapping_add(hi, lo)
        twice == wrapping_add(RANGE_MAX_BLOCKS, RANGE_MAX_BLOCKS)
        k  == IF ~gt(twice, s) THEN 2
              ELSE IF ~gt(RANGE_MAX_BLOCKS, s) THEN 1
              ELSE 0
    IN  wrapping_add(hi, u64(k))

\* variant: the range count computed without the width of the sum
checked_ranges(num_blocks) ==
    LET s == add_carry(num_blocks, RANGE_MAX_BLOCKS)
    IN  IF s.carry = 1 THEN u64(MAX_RANGES + 1)
        ELSE div_range_max(wrapping_sub(s.val, u64(1)))

\* unmap_blocks, lines 855-857: (num_blocks + RANGE_MAX_BLOCKS - 1) /
\* RANGE_MAX_BLOCKS in wrapping u64 arithmetic (a build without overflow
\* checks)
wrapped_ranges(num_blocks) ==
    div_range_max(wrapping_sub(wrapping_add(num_blocks, RANGE_MAX_BLOCKS),
                               u64(1)))

\* lines 855-857 in a build with overflow checks: the sum panics
ranges_overflow(num_blocks) ==
    \/ add_carry(num_blocks, RANGE_MAX_BLOCKS).carry = 1
    \/ sub_borrow(wrapping_add(num_blocks, RANGE_MAX_BLOCKS), u64(1)).borrow = 1

\* lines 859-865
check_dsm_args(nr) == IF gt(nr, u64(MAX_RANGES)) THEN EINVAL ELSE 0

Range(lba, len) == [starting_lba |-> lba, length |-> len]

\* the loop of lines 895-926: the blocks and the offset that remain, the
\* ranges written so far, whether the last range was written (done) and
\* whether a range was written past the buffer of MAX_RANGES ranges
FillStart(remaining, offset) ==
    [remaining |-> remaining, offset |-> offset, ranges |-> <<>>,
     done |-> FALSE, overrun |-> FALSE]

\* variant: the range of the remaining blocks is written as a full one
fill_step_full(s0) ==
    The({ IF s.done THEN s
          ELSE IF gt(s.remaining, RANGE_MAX_BLOCKS) THEN
              [s EXCEPT !.remaining = wrapping_sub(@, RANGE_MAX_BLOCKS),
                        !.offset = wrapping_add(@, RANGE_MAX_BLOCKS),
                        !.ranges = Append(@, Range(s.offset, RANGE_MAX_BLOCKS))]
          ELSE [s EXCEPT !.ranges = Append(@, Range(s.offset, RANGE_MAX_BLOCKS)),
                         !.done = TRUE] : s \in {s0} })

\* one turn: a full range while more than RANGE_MAX_BLOCKS blocks remain
\* (lines 900-915), the range of the remaining blocks otherwise (lines
\* 918-925); the buffer holds MAX_RANGES ranges (lines 890-894)
fill_step(s0) ==
    The({ IF s.done THEN s
          ELSE IF Len(s.ranges) = MAX_RANGES THEN
              [s EXCEPT !.done = TRUE, !.overrun = TRUE]
          ELSE IF gt(s.remaining, RANGE_MAX_BLOCKS) THEN
              [s EXCEPT !.remaining = wrapping_sub(@, RANGE_MAX_BLOCKS),
                        !.offset = wrapping_add(@, RANGE_MAX_BLOCKS),
                        !.ranges = Append(@, Range(s.offset, RANGE_MAX_BLOCKS))]
          ELSE [s EXCEPT !.ranges = Append(@, Range(s.offset, s.remaining)),
                         !.done = TRUE] : s \in {s0} })

\* 2, 4, ... 256 turns
fill_2(s0) == IF s0.done THEN s0 ELSE The({fill_step(t) : t \in {fill_step(s0)}})

fill_4(s0) == IF s0.done THEN s0 ELSE The({fill_2(t) : t \in {fill_2(s0)}})

fill_8(s0) == IF s0.done THEN s0 ELSE The({fill_4(t) : t \in {fill_4(s0)}})

fill_16(s0) == IF s0.done THEN s0 ELSE The({fill_8(t) : t \in {fill_8(s0)}})

fill_32(s0) == IF s0.done THEN s0 ELSE The({fill_16(t) : t \in {fill_16(s0)}})

fill_64(s0) == IF s0.done THEN s0 ELSE The({fill_32(t) : t \in {fill_32(s0)}})

fill_128(s0) == IF s0.done THEN s0 ELSE The({fill_64(t) : t \in {fill_64(s0)}})

fill_256(s0) == IF s0.done THEN s0 ELSE The({fill_128(t) : t \in {fill_128(s0)}})

\* the loop, until the last range is written or the buffer is overrun:
\* MAX_RANGES turns and one more
fill_ranges(remaining, offset) ==
    fill_step(fill_256(FillStart(remaining, offset)))

NoDsm == [op |-> "none", lba |-> u64(0), n |-> u64(0), res |-> "none",
          err |-> "none", ctx |-> FALSE, filled |-> <<>>, count |-> 0]

NoCommand == dsm = NoDsm

\* the process is gone (panic) or its memory is not to be relied on
Dead == dsm.res \in {"panic", "overrun"}

\* unmap_blocks(offset_blocks, num_blocks) down to the ranges of the command.
\* checks: whether the build has overflow checks; rc: what
\* spdk_nvme_ns_cmd_dataset_management returns.
dsm_dispatch(name, lba, n, rc, checks) ==
    LET nr     == wrapped_ranges(n)
        argerr == check_dsm_args(nr)
        goes   == /\ argerr = 0
                  /\ check_channel_for_io(qpair) = 0
                  /\ alloc_nvme_io_ctx(pool_free) = 0
        none   == [overrun |-> FALSE, ranges |-> <<>>]
    IN
    /\ ~Dead
    /\ next_arg <= MaxUnmapCalls
    /\ IF checks /\ ranges_overflow(n) THEN
           /\ dsm' = [NoDsm EXCEPT !.op = name, !.lba = lba, !.n = n,
                                   !.res = "panic"]
           /\ UNCHANGED handleVars
       ELSE \E f \in {IF goes THEN fill_ranges(n, lba) ELSE none} :
           IF f.overrun THEN
               \* ranges are written past the end of the buffer
               /\ dsm' = [NoDsm EXCEPT !.op = name, !.lba = lba, !.n = n,
                                       !.res = "overrun", !.ctx = TRUE,
                                       !.filled = f.ranges]
               /\ pool_free' = pool_free - 1
               /\ UNCHANGED <<qpair, num_io, driver, cbs, rets, next_arg,
                              lastCall, rst>>
           ELSE
               /\ dispatch_with_ctx(name, argerr, rc)
               /\ dsm' = [op |-> name, lba |-> lba, n |-> n,
                          res |-> lastCall'.res, err |-> lastCall'.err,
                          ctx |-> goes, filled |-> f.ranges,
                          count |-> IF goes THEN nr[1] ELSE 0]

\* unmap_blocks
dsm_unmap_blocks(lba, n, rc, checks) ==
    dsm_dispatch("unmap_blocks", lba, n, rc, checks)

\* write_zeroes is done through unmap_blocks (lines 952-961)
dsm_write_zeroes(lba, n, rc, checks) ==
    dsm_dispatch("write_zeroes", lba, n, rc, checks)

(***************************************************************************)
(* I/O channel of an NVMe controller (nvmx/channel.rs).  The driver        *)
(* resources are counted: the queue pairs allocated and not freed, the     *)
(* queue pairs added to a poll group and not removed, the poll groups, the *)
(* pollers and the channel contexts (NvmeIoChannelInner) that exist.       *)
(* The driver does not call destroy_channel for a channel whose            *)
(* create_channel returned an error.                                       *)
(***************************************************************************)
\* no channel: nothing is allocated.  trace: the driver calls of the last
\* operation on the channel, each with the resources that exist after it
NoChan ==
    [state |-> "none", rc |-> 0, qpair |-> 0, next |-> 1, qpairs |-> {},
     in_group |-> {}, poll_groups |-> 0, pollers |-> 0, inners |-> 0,
     trace |-> <<>>]

NoChannel == nch = NoChan

\* an operation begins: no driver call yet
Begin(c) == [c EXCEPT !.trace = <<>>]

\* the driver call `call` was made and left the resources of c
Did(c, call) ==
    [c EXCEPT !.trace = Append(@, [call |-> call, qpairs |-> c.qpairs,
                                   in_group |-> c.in_group,
                                   poll_groups |-> c.poll_groups,
                                   pollers |-> c.pollers])]

\* spdk_nvme_ctrlr_alloc_io_qpair: the queue pair c.next is allocated
alloc_io_qpair(c) ==
    Did([c EXCEPT !.qpairs = @ \cup {c.next}, !.next = @ + 1],
        "alloc_io_qpair")

\* spdk_nvme_ctrlr_free_io_qpair
free_io_qpair(c, q) == Did([c EXCEPT !.qpairs = @ \ {q}], "free_io_qpair")

\* spdk_nvme_poll_group_add
poll_group_add(c, q) ==
    Did([c EXCEPT !.in_group = @ \cup {q}], "poll_group_add")

\* spdk_nvme_poll_group_remove
poll_group_remove(c, q) ==
    Did([c EXCEPT !.in_group = @ \ {q}], "poll_group_remove")

\* spdk_nvme_poll_group_create
poll_group_create(c) ==
    Did([c EXCEPT !.poll_groups = @ + 1], "poll_group_create")

\* spdk_nvme_poll_group_destroy
poll_group_destroy(c) ==
    Did([c EXCEPT !.poll_groups = @ - 1], "poll_group_destroy")

\* spdk_poller_register_named
poller_register(c) == Did([c EXCEPT !.pollers = @ + 1], "poller_register")

\* spdk_poller_unregister
poller_unregister(c) ==
    Did([c EXCEPT !.pollers = @ - 1], "poller_unregister")

\* create_channel, lines 210-236: the poll group, the poller and the channel
\* context that holds them and the queue pair
create_inner(c, q) ==
    [poller_register(poll_group_create(c)) EXCEPT !.inners = @ + 1,
                                                  !.qpair = q]

CreateSteps == {"lookup", "alloc", "group", "add", "connect", "none"}

\* create_channel; fail_at: the step that fails, "none" when none does
create_channel(fail_at) ==
    /\ nch.state = "none"
    /\ nch.next <= MaxQpairs
    /\ LET q == nch.next
           c1 == alloc_io_qpair(Begin(nch))
           c2 == create_inner(c1, q)
           c3 == poll_group_add(c2, q)
           failed(c) == [c EXCEPT !.state = "failed", !.rc = 1]
       IN  nch' = CASE fail_at \in {"lookup", "alloc"} -> failed(Begin(nch))
                    [] fail_at = "group" -> failed(c1)
                    [] fail_at = "add" -> failed(c2)
                    [] fail_at = "connect" -> failed(c3)
                    [] fail_at = "none" ->
                          [Did(c3, "connect_io_qpair") EXCEPT
                              !.state = "created", !.rc = 0]

\* the driver gives up the channel whose creation failed: the context is
\* not initialised and a new channel can be asked for
channel_dropped ==
    /\ nch.state = "failed"
    /\ nch' = [Begin(nch) EXCEPT !.state = "none", !.qpair = 0]

\* the controller reset clears the queue pair of the channel: it is removed
\* from the poll group and freed (NvmeController is not part of the sources)
channel_reset ==
    /\ nch.state = "created"
    /\ nch.qpair # 0
    /\ nch' = [free_io_qpair(poll_group_remove(Begin(nch), nch.qpair),
                             nch.qpair)
                 EXCEPT !.qpair = 0]

\* variant: the queue pair that failed to connect is freed while it is still
\* in the poll group
connect_failed_not_removed(c, q) == free_io_qpair(c, q)

\* reinitialize, lines 110-115: the queue pair that failed to connect is
\* removed from the poll group and freed
connect_failed(c, q) == free_io_qpair(poll_group_remove(c, q), q)

ReinitSteps == {"alloc", "add", "connect", "none"}

\* NvmeIoChannelInner::reinitialize; fail_at: the step that fails
channel_reinitialize(fail_at) ==
    /\ nch.state = "created"
    /\ nch.qpair = 0
    /\ nch.next <= MaxQpairs
    /\ LET q == nch.next
           c1 == alloc_io_qpair(Begin(nch))
           c2 == poll_group_add(c1, q)
       IN  nch' = CASE fail_at = "alloc" -> [Begin(nch) EXCEPT !.rc = -ENOMEM]
                    [] fail_at = "add" ->
                          [free_io_qpair(c1, q) EXCEPT !.rc = -EINVAL]
                    [] fail_at = "connect" ->
                          [connect_failed(c2, q) EXCEPT !.rc = -EINVAL]
                    [] fail_at = "none" ->
                          [Did(c2, "connect_io_qpair") EXCEPT
                              !.qpair = q, !.rc = 0]

\* variant: the queue pair is freed before the poller and the poll group go
release_qpair_first(c) ==
    LET c1 == IF c.qpair # 0
              THEN free_io_qpair(poll_group_remove(c, c.qpair), c.qpair)
              ELSE c
    IN  poll_group_destroy(poller_unregister(c1))

\* destroy_channel, lines 277-287: the queue pair, when there is one, is
\* removed from the poll group; the poller is unregistered and the poll
\* group destroyed; the queue pair, when there is one, is freed
release(c) ==
    LET c1 == IF c.qpair # 0 THEN poll_group_remove(c, c.qpair) ELSE c
        c2 == poll_group_destroy(poller_unregister(c1))
    IN  IF c.qpair # 0 THEN free_io_qpair(c2, c.qpair) ELSE c2

\* destroy_channel: the resources are released and the context is dropped
destroy_channel ==
    /\ nch.state = "created"
    /\ nch' = [release(Begin(nch)) EXCEPT !.state = "none", !.qpair = 0,
                                          !.rc = 0, !.inners = @ - 1]

(***************************************************************************)
(* Signal handling of the environment (core/env.rs).  SIGINT and SIGTERM   *)
(* run mayastor_signal_handler on the thread that receives the signal; an  *)
(* invocation can be interrupted by another signal and invocations on      *)
(* different threads run side by side, so the load and the store of        *)
(* SIG_RECEIVED are separate steps.  The master thread holds one critical  *)
(* message at a time and runs it when it polls (spdk_thread is not part of *)
(* the sources).                                                           *)
(***************************************************************************)
Handlers == 1..MaxSignals

NoSig ==
    [received |-> FALSE, pc |-> [h \in Handlers |-> "idle"], msg |-> FALSE,
     requests |-> 0, reactor |-> "Running"]

NoSignal == sig = NoSig

\* a SIGINT or a SIGTERM is delivered: the handler is entered
signal_delivered(h) ==
    /\ sig.pc[h] = "idle"
    /\ sig' = [sig EXCEPT !.pc[h] = "load"]

\* mayastor_signal_handler, lines 308-310: the flag is loaded and the
\* handler returns when it is set
load_flag(s, h) ==
    IF s.received THEN [s EXCEPT !.pc[h] = "done"]
    ELSE [s EXCEPT !.pc[h] = "store"]

signal_load(h) ==
    /\ sig.pc[h] = "load"
    /\ sig' = load_flag(sig, h)

\* line 313: the flag is stored
signal_store(h) ==
    /\ sig.pc[h] = "store"
    /\ sig' = [sig EXCEPT !.received = TRUE, !.pc[h] = "send"]

\* lines 314-319: signal_trampoline is sent to the master thread as a
\* critical message; the thread takes one such message at a time
signal_send(h) ==
    /\ sig.pc[h] = "send"
    /\ sig' = [sig EXCEPT !.msg = TRUE, !.pc[h] = "done"]

\* mayastor_env_stop: the shutdown future is sent to the master reactor
\* unless the reactor is already shut down
mayastor_env_stop(s) ==
    IF s.reactor \in {"Running", "Delayed", "Init"}
    THEN [s EXCEPT !.requests = @ + 1]
    ELSE [s EXCEPT !.reactor = "panic"]

\* the master thread polls: the critical message runs signal_trampoline
signal_trampoline ==
    /\ sig.msg
    /\ sig.reactor # "panic"
    /\ sig' = mayastor_env_stop([sig EXCEPT !.msg = FALSE])

\* do_shutdown has run; reactors_stop shuts the reactors down
reactors_stop ==
    /\ sig.requests > 0
    /\ sig.reactor = "Running"
    /\ sig' = [sig EXCEPT !.reactor = "Shutdown"]

(***************************************************************************)
(* Scatter-gather cursor of an I/O context (nvmx/handle.rs, lines          *)
(* 193-244).  The driver calls nvme_queued_reset_sgl with the offset of    *)
(* the payload it is about to transfer and nvme_queued_next_sge for each   *)
(* segment while bytes of the payload remain.  iov holds the lengths of    *)
(* the elements; iovpos counts from 0 as in the code.                      *)
(***************************************************************************)
NoCtx ==
    [iov |-> <<>>, iovcnt |-> 0, iovpos |-> 0, iov_offset |-> 0, o |-> 0,
     segs |-> <<>>, asserted |-> FALSE, last |-> "none"]

NoSgl == sgl = NoCtx

RECURSIVE SumLen(_)
SumLen(lens) == IF lens = <<>> THEN 0 ELSE Head(lens) + SumLen(Tail(lens))

\* the segment next_sge hands out: the element, the offset in it, the length
Sge(elem, start, len) == [elem |-> elem, start |-> start, len |-> len]

SegLens(segs) == [i \in 1..Len(segs) |-> segs[i].len]

\* readv_blocks and writev_blocks build the context with the caller's iovec
\* (lines 644-659): the cursor is at the start
new_io_ctx(lens) ==
    /\ sgl.last = "none"
    /\ sgl' = [NoCtx EXCEPT !.iov = lens, !.iovcnt = Len(lens), !.last = "new"]

\* nvme_queued_reset_sgl, lines 199-210: elements are skipped while the
\* offset is not inside the element at iovpos
RECURSIVE skip(_, _)
skip(c, iov) ==
    IF c.iovpos < Len(iov) /\ ~(c.iov_offset < iov[c.iovpos + 1])
    THEN skip([iovpos |-> c.iovpos + 1,
               iov_offset |-> c.iov_offset - iov[c.iovpos + 1]], iov)
    ELSE c

nvme_queued_reset_sgl(sgl_offset) ==
    /\ sgl.last # "none"
    /\ ~sgl.asserted
    /\ LET c == skip([iovpos |-> 0, iov_offset |-> sgl_offset], sgl.iov)
       IN  sgl' = [sgl EXCEPT !.iovpos = c.iovpos,
                              !.iov_offset = c.iov_offset,
                              !.o = sgl_offset, !.segs = <<>>,
                              !.last = "reset"]

\* variant: the whole element is handed out whatever the offset in it
sge_length_full(iov_len, iov_offset) == iov_len

\* lines 226-232: the length of the segment is what is left of the element
sge_length(iov_len, iov_offset) ==
    IF iov_offset > 0 THEN iov_len - iov_offset ELSE iov_len

\* nvme_queued_next_sge; the assertions of lines 220 and 229 set asserted
nvme_queued_next_sge ==
    /\ sgl.last \in {"reset", "next"}
    /\ ~sgl.asserted
    /\ IF ~(sgl.iovpos < sgl.iovcnt) THEN
           sgl' = [sgl EXCEPT !.asserted = TRUE, !.last = "next"]
       ELSE
           LET iov_len == sgl.iov[sgl.iovpos + 1]
               length  == sge_length(iov_len, sgl.iov_offset)
               off     == sgl.iov_offset + length
           IN  IF sgl.iov_offset > 0 /\ ~(sgl.iov_offset <= iov_len) THEN
                   sgl' = [sgl EXCEPT !.asserted = TRUE, !.last = "next"]
               ELSE
                   sgl' = [sgl EXCEPT
                             !.segs = Append(@, Sge(sgl.iovpos + 1,
                                                    sgl.iov_offset, length)),
                             !.iovpos = IF off = iov_len THEN @ + 1 ELSE @,
                             !.iov_offset = IF off = iov_len THEN 0 ELSE off,
                             !.last = "next"]

(***************************************************************************)
(* Removal of an NVMe device whose handle stays open.  The controller and  *)
(* device_destroy are not part of the sources; they are modelled after     *)
(* tests/block_device_nvmf.rs (nvmf_device_io_handle_cleanup): the device  *)
(* is removed from the registry, the commands in flight are aborted and    *)
(* the queue pair of every channel of the controller is cleared for good.  *)
(***************************************************************************)
\* device_create and device_open: the controller is registered
Registered == [registered |-> TRUE, destroyed_at |-> 0]

DeviceCreated == ctrlr = Registered

\* device_lookup(name)
device_lookup(c) == c.registered

\* device_destroy(url) with the handle open
device_destroy ==
    /\ ctrlr.registered
    /\ rst.state # "running"
    /\ ctrlr' = [registered |-> FALSE, destroyed_at |-> next_arg]
    /\ qpair' = FALSE
    /\ driver' = {[c EXCEPT !.aborted = TRUE] : c \in driver}
    /\ UNCHANGED <<num_io, pool_free, cbs, rets, next_arg, lastCall, rst>>

(***************************************************************************)
(* Nexus label (nexus_label.rs): generation, serialisation, the writes of  *)
(* write_label and the validation of probe_label.                          *)
(*                                                                         *)
(* A u64 is written as an integer: a value v >= 2^63 is written v - 2^64,  *)
(* so that integer addition and subtraction are the wrapping ones as long  *)
(* as the result is within 2^31 of zero, which holds for every value of    *)
(* the model.  Comparisons of u64 values go through u64_lt.                *)
(*                                                                         *)
(* A CRC32 is written as the tuple holding the bytes it was computed over  *)
(* (two checksums are equal exactly when their inputs are), the checksum   *)
(* value zero as the empty tuple.                                          *)
(***************************************************************************)
METADATA_PARTITION_SIZE    == 4194304
METADATA_PARTITION_TYPE_ID == "27663382-e5e6-11e9-81b4-ca5ca5ca5ca5"
PARTITION_TABLE_SIZE       == 16384
DATA_OFFSET                == 1048576
HEADER_SIZE                == 92
HEADER_REVISION            == <<0, 0, 1, 0>>
HEADER_SIGNATURE           == "EFI PART"
PMBR_SIGNATURE             == <<85, 170>>
\* the byte offset of the MBR inside block 0 (the boot code is skipped)
MBR_OFFSET                 == 440
\* a GptName is serialised as 36 UTF-16 code units
NAME_UNITS                 == 36
\* the serialised size of a GptEntry: 16 + 16 + 8 + 8 + 8 + 72 bytes
ENTRY_BYTES                == 128
\* "MayaMeta" and "MayaData" as UTF-16 code units
MayaMeta == <<77, 97, 121, 97, 77, 101, 116, 97>>
MayaData == <<77, 97, 121, 97, 68, 97, 116, 97>>
ZeroGuid == "00000000-0000-0000-0000-000000000000"
NoCrc    == <<>>

Ok(v)  == [ok |-> TRUE, val |-> v, err |-> <<>>]
Err(e) == [ok |-> FALSE, val |-> <<>>, err |-> e]
\* nothing was returned yet
NoResult == Err(<<"none">>)
InvalidLabel(source) == <<"InvalidLabel">> \o source
ReadError(name) == <<"ReadError", name>>
Panic == Err(<<"panic", "attempt to subtract with overflow">>)

u64_lt(a, b) == IF (a < 0) = (b < 0) THEN a < b ELSE b < 0
u64_min(a, b) == IF u64_lt(b, a) THEN b ELSE a
\* n > u32::max_value()
exceeds_u32(n) == n < 0 \/ n \div 65536 >= 65536

crc32(bytes) == <<bytes>>

\* Aligned::get_blocks
get_blocks(size, block_size) ==
    (size \div block_size) + (IF size % block_size = 0 THEN 0 ELSE 1)

\* ---- protective MBR
MbrEntry_default ==
    [attributes |-> 0, chs_start |-> <<0, 0, 0>>, ent_type |-> 0,
     chs_last |-> <<0, 0, 0>>, lba_start |-> 0, num_sectors |-> 0]

\* the u32 0xffff_ffff, written as its 32-bit pattern read as a signed value
U32_MAX == -1

protect(entry, num_blocks) ==
    [entry EXCEPT !.attributes = 0,
                  !.ent_type = 238,
                  !.chs_start = <<0, 2, 0>>,
                  !.chs_last = <<255, 255, 255>>,
                  !.lba_start = 1,
                  !.num_sectors = IF exceeds_u32(num_blocks)
                                  THEN U32_MAX ELSE num_blocks - 1]

Pmbr_default ==
    [disk_signature |-> 0, reserved |-> 0,
     entries |-> [i \in 1..4 |-> MbrEntry_default],
     signature |-> PMBR_SIGNATURE]

serialize_mbr(m) ==
    <<m.disk_signature, m.reserved,
      [i \in 1..4 |-> LET e == m.entries[i] IN
          <<e.attributes, e.chs_start, e.ent_type, e.chs_last,
            e.lba_start, e.num_sectors>>],
      m.signature>>

deserialize_mbr(b) ==
    [disk_signature |-> b[1], reserved |-> b[2],
     entries |-> [i \in 1..4 |-> LET e == b[3][i] IN
          [attributes |-> e[1], chs_start |-> e[2], ent_type |-> e[3],
           chs_last |-> e[4], lba_start |-> e[5], num_sectors |-> e[6]]],
     signature |-> b[4]]

\* ---- GPT header
serialize_header(h) ==
    <<h.signature, h.revision, h.header_size, h.self_checksum, h.reserved,
      h.lba_self, h.lba_alt, h.lba_start, h.lba_end, h.guid, h.lba_table,
      h.num_entries, h.entry_size, h.table_crc>>

deserialize_header(b) ==
    [signature |-> b[1], revision |-> b[2], header_size |-> b[3],
     self_checksum |-> b[4], reserved |-> b[5], lba_self |-> b[6],
     lba_alt |-> b[7], lba_start |-> b[8], lba_end |-> b[9], guid |-> b[10],
     lba_table |-> b[11], num_entries |-> b[12], entry_size |-> b[13],
     table_crc |-> b[14]]

\* GptHeader::checksum: the header with its checksum recomputed
header_checksum(h) ==
    [h EXCEPT !.self_checksum =
        crc32(serialize_header([h EXCEPT !.self_checksum = NoCrc]))]

GptHeader_new(guid, block_size, num_blocks) ==
    LET partition_blocks == get_blocks(PARTITION_TABLE_SIZE, block_size)
        data_start == get_blocks(DATA_OFFSET, block_size)
    IN  [signature |-> HEADER_SIGNATURE,
         revision |-> HEADER_REVISION,
         header_size |-> HEADER_SIZE,
         self_checksum |-> NoCrc,
         reserved |-> <<0, 0, 0, 0>>,
         lba_self |-> 1,
         lba_alt |-> num_blocks - 1,
         lba_start |-> data_start,
         lba_end |-> num_blocks - partition_blocks - 2,
         guid |-> guid,
         lba_table |-> 2,
         num_entries |-> 2,
         entry_size |-> 128,
         table_crc |-> NoCrc]

\* a subtraction of GptHeader::new goes below zero: a build with overflow
\* checks panics there, a build without them wraps around
header_new_overflows(block_size, num_blocks) ==
    \/ u64_lt(num_blocks, 1)
    \/ u64_lt(num_blocks, get_blocks(PARTITION_TABLE_SIZE, block_size) + 2)

to_secondary(h) ==
    header_checksum([h EXCEPT !.lba_self = h.lba_alt,
                              !.lba_alt = h.lba_self,
                              !.lba_table = h.lba_end + 1])

\* a variant of to_primary that keeps the table where the secondary has it
to_primary_table_kept(h) ==
    header_checksum([h EXCEPT !.lba_self = h.lba_alt,
                              !.lba_alt = h.lba_self])

to_primary(h) ==
    header_checksum([h EXCEPT !.lba_self = h.lba_alt,
                              !.lba_alt = h.lba_self,
                              !.lba_table = h.lba_alt + 1])

\* ---- partition entries
GptEntry_default ==
    [ent_type |-> ZeroGuid, ent_guid |-> ZeroGuid, ent_start |-> 0,
     ent_end |-> 0, ent_attr |-> 0, ent_name |-> <<>>]

\* impl Serialize for GptName: 36 code units, the name first, zeroes after
serialize_name(name) ==
    [i \in 1..NAME_UNITS |-> IF i <= Len(name) THEN name[i] ELSE 0]

\* GpEntryNameVisitor::visit_seq: the units before the first zero; a name
\* without a terminating zero is refused
deserialize_name(units) ==
    LET zeros == {i \in 1..Len(units) : units[i] = 0} IN
    IF zeros = {} THEN Err(<<"DeserializeError">>)
    ELSE Ok(SubSeq(units, 1, (CHOOSE i \in zeros : \A j \in zeros : i <= j) - 1))

serialize_entry(e) ==
    <<e.ent_type, e.ent_guid, e.ent_start, e.ent_end, e.ent_attr,
      serialize_name(e.ent_name)>>

deserialize_entry(b) ==
    LET name == deserialize_name(b[6]) IN
    IF ~name.ok THEN name
    ELSE Ok([ent_type |-> b[1], ent_guid |-> b[2], ent_start |-> b[3],
             ent_end |-> b[4], ent_attr |-> b[5], ent_name |-> name.val])

\* GptEntry::checksum: the entries, padded with empty entries up to size
GptEntry_checksum(partitions, size) ==
    LET count == Len(partitions) IN
    crc32([i \in 1..(IF count < size THEN size ELSE count) |->
              IF i <= count THEN serialize_entry(partitions[i])
              ELSE serialize_entry(GptEntry_default)])

create_maya_partitions(header, block_size, size, guid_meta, guid_data) ==
    LET metadata_blocks == get_blocks(METADATA_PARTITION_SIZE, block_size)
        data_start == header.lba_start + metadata_blocks
        data_blocks == get_blocks(size, block_size)
    IN  IF u64_lt(header.lba_end, data_start)
        THEN Err(<<"DeviceTooSmall">>)
        ELSE Ok(<<[ent_type |-> METADATA_PARTITION_TYPE_ID,
                   ent_guid |-> guid_meta,
                   ent_start |-> header.lba_start,
                   ent_end |-> data_start - 1,
                   ent_attr |-> 0,
                   ent_name |-> MayaMeta],
                  [ent_type |-> METADATA_PARTITION_TYPE_ID,
                   ent_guid |-> guid_data,
                   ent_start |-> data_start,
                   ent_end |-> u64_min(data_start + data_blocks - 1,
                                       header.lba_end),
                   ent_attr |-> 0,
                   ent_name |-> MayaData]>>)

\* checked: the build has overflow checks
generate_label(guid, block_size, num_blocks, size, g_meta, g_data, checked) ==
    IF checked /\ header_new_overflows(block_size, num_blocks) THEN Panic
    ELSE
    LET pmbr == [Pmbr_default EXCEPT
                    !.entries[1] = protect(Pmbr_default.entries[1], num_blocks)]
        new == GptHeader_new(guid, block_size, num_blocks)
        partitions == create_maya_partitions(new, block_size, size,
                                             g_meta, g_data)
    IN  IF ~partitions.ok THEN partitions
        ELSE
        LET header == header_checksum(
                [new EXCEPT !.table_crc =
                    GptEntry_checksum(partitions.val, new.num_entries)])
        IN  Ok([status |-> "Neither",
                block_size |-> block_size,
                mbr |-> pmbr,
                primary |-> header,
                partitions |-> partitions.val,
                secondary |-> to_secondary(header)])

\* ---- the child's disk: byte offset -> the object serialised there; the
\* bytes that hold no object are zero
Zeros == [kind |-> "zero", bytes |-> <<>>]
BlankDisk == [o \in {} |-> Zeros]
disk_read(d, offset) == IF offset \in DOMAIN d THEN d[offset] ELSE Zeros

\* the device accepts a transfer that lies inside it
in_range(g, offset, len) ==
    /\ ~u64_lt(g.num_blocks * g.block_len, offset)
    /\ offset >= 0
    /\ offset + len <= g.num_blocks * g.block_len

ZeroHeader ==
    [signature |-> "", revision |-> <<0, 0, 0, 0>>, header_size |-> 0,
     self_checksum |-> NoCrc, reserved |-> <<0, 0, 0, 0>>, lba_self |-> 0,
     lba_alt |-> 0, lba_start |-> 0, lba_end |-> 0, guid |-> ZeroGuid,
     lba_table |-> 0, num_entries |-> 0, entry_size |-> 0,
     table_crc |-> NoCrc]

Pmbr_from_slice(obj) ==
    LET mbr == IF obj.kind = "mbr" THEN deserialize_mbr(obj.bytes)
               ELSE [Pmbr_default EXCEPT !.signature = <<0, 0>>]
    IN  IF mbr.signature # PMBR_SIGNATURE THEN Err(<<"MbrSignature">>)
        ELSE Ok(mbr)

GptHeader_from_slice(obj) ==
    LET header == IF obj.kind = "hdr" THEN deserialize_header(obj.bytes)
                  ELSE ZeroHeader
    IN  IF header.header_size # HEADER_SIZE THEN Err(<<"GptHeaderSize">>)
        ELSE IF header.signature # HEADER_SIGNATURE
        THEN Err(<<"GptSignature">>)
        ELSE IF header.revision # HEADER_REVISION THEN Err(<<"GptRevision">>)
        ELSE IF header.self_checksum # header_checksum(header).self_checksum
        THEN Err(<<"GptChecksum">>)
        ELSE Ok(header_checksum(header))

GptEntry_from_slice(d, offset, count) ==
    LET entries == [i \in 1..count |->
            LET obj == disk_read(d, offset + (i - 1) * ENTRY_BYTES) IN
            IF obj.kind = "ent" THEN deserialize_entry(obj.bytes)
            ELSE Ok(GptEntry_default)]
    IN  IF \E i \in 1..count : ~entries[i].ok
        THEN Err(<<"DeserializeError">>)
        ELSE Ok([i \in 1..count |-> entries[i].val])

\* the u32 product a * b for a, b < 2^31: the low 32 bits as two 16-bit
\* digits, and whether the product needs more than 32 bits
mul_u32(a, b) ==
    LET al == a % U16
        ah == a \div U16
        bl == b % U16
        bh == b \div U16
        mid == (al \div 256) * (bl % 256) + (al % 256) * (bl \div 256)
        low == (mid % 256) * 256 + (al % 256) * (bl % 256)
        high == (al \div 256) * (bl \div 256) + mid \div 256 + low \div U16
    IN  [lo |-> low % U16,
         hi |-> (high + ((ah * bl) % U16) + ((al * bh) % U16)) % U16,
         overflow |-> \/ ah * bh > 0
                      \/ ah * bl >= U16
                      \/ al * bh >= U16
                      \/ high + ah * bl + al * bh >= U16]
MulPanic == Err(<<"panic", "attempt to multiply with overflow">>)
\* (num_entries * entry_size) as u64 > PARTITION_TABLE_SIZE, on the 32 bits
\* the product is computed in
table_too_large(header) ==
    LET size == mul_u32(header.num_entries, header.entry_size) IN
    size.hi > 0 \/ size.lo > PARTITION_TABLE_SIZE
\* the same test on the product of the two factors widened to 64 bits
table_too_large_u64(header) ==
    LET size == mul_u32(header.num_entries, header.entry_size) IN
    size.overflow \/ size.hi > 0 \/ size.lo > PARTITION_TABLE_SIZE

\* checked: the build has overflow checks
validate_primary_header(primary, block_size, num_blocks, checked) ==
    IF primary.lba_self # 1 THEN Err(<<"PrimaryLocation">>)
    ELSE IF primary.lba_alt + 1 # num_blocks THEN Err(<<"SecondaryLocation">>)
    ELSE IF ~u64_lt(primary.lba_end, primary.lba_alt)
    THEN Err(<<"LastUsableBlock">>)
    ELSE IF primary.lba_table # primary.lba_self + 1
    THEN Err(<<"PartitionTableLocation">>)
    ELSE IF checked /\ mul_u32(primary.num_entries, primary.entry_size).overflow
    THEN MulPanic
    ELSE IF table_too_large(primary) THEN Err(<<"PartitionTableSize">>)
    ELSE IF u64_lt(primary.lba_start,
                   primary.lba_table
                       + get_blocks(PARTITION_TABLE_SIZE, block_size))
    THEN Err(<<"PartitionTableSpace">>)
    ELSE Ok(primary)

validate_secondary_header(secondary, block_size, num_blocks, checked) ==
    IF secondary.lba_alt # 1 THEN Err(<<"PrimaryLocation">>)
    ELSE IF secondary.lba_self + 1 # num_blocks
    THEN Err(<<"SecondaryLocation">>)
    ELSE IF ~u64_lt(secondary.lba_alt, secondary.lba_start)
    THEN Err(<<"FirstUsableBlock">>)
    ELSE IF secondary.lba_table # secondary.lba_end + 1
    THEN Err(<<"PartitionTableLocation">>)
    ELSE IF checked /\ mul_u32(secondary.num_entries, secondary.entry_size).overflow
    THEN MulPanic
    ELSE IF table_too_large(secondary) THEN Err(<<"PartitionTableSize">>)
    ELSE IF u64_lt(secondary.lba_self,
                   secondary.lba_table
                       + get_blocks(PARTITION_TABLE_SIZE, block_size))
    THEN Err(<<"PartitionTableSpace">>)
    ELSE Ok(secondary)

\* the first check of validate_partitions an entry fails ("": none)
entry_error(entry, header) ==
    IF u64_lt(0, entry.ent_start) /\ u64_lt(entry.ent_start, header.lba_start)
    THEN "PartitionStart"
    ELSE IF u64_lt(entry.ent_end, entry.ent_start)
    THEN "NegativePartitionSize"
    ELSE IF u64_lt(header.lba_end, entry.ent_end) THEN "PartitionEnd"
    ELSE ""

validate_partitions(partitions, header) ==
    LET bad == {i \in 1..Len(partitions) :
                    entry_error(partitions[i], header) # ""}
    IN  IF bad # {}
        THEN Err(<<entry_error(
                 partitions[CHOOSE i \in bad : \A j \in bad : i <= j],
                 header)>>)
        ELSE IF header.table_crc
                    # GptEntry_checksum(partitions, header.num_entries)
        THEN Err(<<"PartitionTableChecksum">>)
        ELSE Ok(partitions)

consistency_check(primary, secondary) ==
    IF primary.lba_self # secondary.lba_alt
    THEN Err(<<"CompareHeaderLocation">>)
    ELSE IF primary.lba_alt # secondary.lba_self
    THEN Err(<<"CompareHeaderLocation">>)
    ELSE IF primary.lba_start # secondary.lba_start
    THEN Err(<<"FirstUsableBlock">>)
    ELSE IF primary.lba_end # secondary.lba_end
    THEN Err(<<"LastUsableBlock">>)
    ELSE IF primary.guid # secondary.guid THEN Err(<<"CompareDiskGuid">>)
    ELSE IF primary.num_entries # secondary.num_entries
    THEN Err(<<"ComparePartitionEntryCount">>)
    ELSE IF primary.entry_size # secondary.entry_size
    THEN Err(<<"ComparePartitionEntrySize">>)
    ELSE IF primary.table_crc # secondary.table_crc
    THEN Err(<<"ComparePartitionTableChecksum">>)
    ELSE Ok(<<>>)

read_primary_header(obj, block_size, num_blocks, checked) ==
    LET header == GptHeader_from_slice(obj) IN
    IF ~header.ok THEN header
    ELSE validate_primary_header(header.val, block_size, num_blocks, checked)

read_secondary_header(obj, block_size, num_blocks, checked) ==
    LET header == GptHeader_from_slice(obj) IN
    IF ~header.ok THEN header
    ELSE validate_secondary_header(header.val, block_size, num_blocks, checked)

read_partitions(d, offset, header) ==
    LET partitions == GptEntry_from_slice(d, offset, header.num_entries) IN
    IF ~partitions.ok THEN partitions
    ELSE validate_partitions(partitions.val, header)

\* NexusChild::probe_label on a child with disk d and geometry g
probe_label_of(d, g) ==
    LET block_size == g.block_len
        num_blocks == g.num_blocks
        mbr == Pmbr_from_slice(disk_read(d, MBR_OFFSET))
        first == read_primary_header(disk_read(d, block_size),
                                     block_size, num_blocks, g.checked)
        last_offset == (num_blocks - 1) * block_size
        second == read_secondary_header(disk_read(d, last_offset),
                                        block_size, num_blocks, g.checked)
    IN
    IF ~in_range(g, 0, block_size) THEN Err(ReadError("MBR"))
    ELSE IF ~mbr.ok THEN Err(InvalidLabel(mbr.err))
    ELSE IF ~in_range(g, block_size, block_size)
    THEN Err(ReadError("primary GPT header"))
    ELSE IF ~in_range(g, last_offset, block_size)
    THEN Err(ReadError("secondary GPT header"))
    ELSE IF first = MulPanic \/ second = MulPanic THEN MulPanic
    ELSE IF first.ok /\ second.ok
            /\ ~consistency_check(first.val, second.val).ok
    THEN Err(InvalidLabel(consistency_check(first.val, second.val).err))
    ELSE IF ~first.ok /\ ~second.ok THEN Err(InvalidLabel(first.err))
    ELSE
    LET synced == IF first.ok /\ second.ok THEN "Both"
                  ELSE IF first.ok THEN "Primary" ELSE "Secondary"
        primary == IF first.ok THEN first.val ELSE to_primary(second.val)
        secondary == IF second.ok THEN second.val
                     ELSE to_secondary(first.val)
        active == IF first.ok THEN primary ELSE secondary
        num_sectors == mbr.val.entries[1].num_sectors
    IN
    IF num_sectors # U32_MAX /\ num_sectors # primary.lba_alt
    THEN Err(InvalidLabel(<<"MbrSize">>))
    ELSE
    LET blocks == get_blocks(mul_u32(active.entry_size, active.num_entries).lo,
                             block_size)
        offset == active.lba_table * block_size
        partitions == read_partitions(d, offset, active)
    IN
    IF ~in_range(g, offset, blocks * block_size)
    THEN Err(ReadError("partition table"))
    ELSE IF ~partitions.ok THEN Err(InvalidLabel(partitions.err))
    ELSE Ok([status |-> synced,
             block_size |-> block_size,
             mbr |-> mbr.val,
             primary |-> primary,
             partitions |-> SelectSeq(partitions.val,
                 LAMBDA e : e.ent_start # 0 /\ e.ent_end # 0),
             secondary |-> secondary])

\* the partition table as it is serialised at table: entry after entry
table_items(l, table) ==
    [o \in {table + (i - 1) * ENTRY_BYTES : i \in 1..Len(l.partitions)} |->
        [kind |-> "ent",
         bytes |-> serialize_entry(
                       l.partitions[(o - table) \div ENTRY_BYTES + 1])]]

get_primary_data(l, block_size) ==
    [offset |-> 0,
     len |-> l.primary.lba_start * block_size,
     items |-> table_items(l, l.primary.lba_table * block_size)
               @@ (l.primary.lba_self * block_size :>
                      [kind |-> "hdr", bytes |-> serialize_header(l.primary)])
               @@ (MBR_OFFSET :>
                      [kind |-> "mbr", bytes |-> serialize_mbr(l.mbr)])]

get_secondary_data(l, block_size) ==
    [offset |-> l.secondary.lba_table * block_size,
     len |-> (l.secondary.lba_self - l.secondary.lba_table + 1) * block_size,
     items |-> ((l.secondary.lba_self - l.secondary.lba_table) * block_size :>
                   [kind |-> "hdr", bytes |-> serialize_header(l.secondary)])
               @@ table_items(l, 0)]

\* the disk after the buffer was written at its offset
store(d, data) ==
    LET covered == {o \in DOMAIN d :
                        data.offset <= o /\ o < data.offset + data.len}
        new == {data.offset + r : r \in DOMAIN data.items}
    IN  [o \in (DOMAIN d \ covered) \cup new |->
            IF o \in new THEN data.items[o - data.offset] ELSE d[o]]

\* NexusChild::write_at: the write fails when it does not fit the device
child_write_at(d, g, data) ==
    IF in_range(g, data.offset, data.len)
    THEN [ok |-> TRUE, disk |-> store(d, data)]
    ELSE [ok |-> FALSE, disk |-> d]

\* NexusLabel::get_partition: the first entry with that name
get_partition(l, name) ==
    LET found == {i \in 1..Len(l.partitions) : l.partitions[i].ent_name = name}
    IN  IF found = {} THEN Err(<<"MissingPartition">>)
        ELSE Ok(l.partitions[CHOOSE i \in found : \A j \in found : i <= j])

partition_offset(l, name) ==
    LET entry == get_partition(l, name) IN
    IF ~entry.ok THEN entry ELSE Ok(entry.val.ent_start * l.block_size)

\* a variant that counts the blocks up to ent_end from the start of the disk
partition_size_from_zero(l, name, checked) ==
    LET entry == get_partition(l, name) IN
    IF ~entry.ok THEN entry ELSE Ok((entry.val.ent_end + 1) * l.block_size)

\* the size is computed as (ent_end - ent_start) * block_size; a build with
\* overflow checks panics when ent_end is below ent_start
partition_size(l, name, checked) ==
    LET entry == get_partition(l, name) IN
    IF ~entry.ok THEN entry
    ELSE IF checked /\ u64_lt(entry.val.ent_end, entry.val.ent_start)
    THEN Panic
    ELSE Ok((entry.val.ent_end - entry.val.ent_start) * l.block_size)

check_maya_partitions(l) ==
    LET metadata_start == get_blocks(DATA_OFFSET, l.block_size)
        metadata_blocks == get_blocks(METADATA_PARTITION_SIZE, l.block_size)
        data_start == metadata_start + metadata_blocks
        meta == get_partition(l, MayaMeta)
        data == get_partition(l, MayaData)
    IN  /\ metadata_start = l.primary.lba_start
        /\ ~u64_lt(l.primary.lba_end, data_start)
        /\ meta.ok
        /\ meta.val.ent_type = METADATA_PARTITION_TYPE_ID
        /\ meta.val.ent_start = metadata_start
        /\ meta.val.ent_end = data_start - 1
        /\ data.ok
        /\ data.val.ent_type = METADATA_PARTITION_TYPE_ID
        /\ data.val.ent_start = data_start

\* the write_at call that hands the buffer to the device
call(data) == [offset |-> data.offset, len |-> data.len]

\* a variant of write_label that writes both halves whatever the status
write_label_both(d, g, l) ==
    LET primary == get_primary_data(l, g.block_len)
        secondary == get_secondary_data(l, g.block_len)
        w1 == child_write_at(d, g, primary)
        w2 == child_write_at(w1.disk, g, secondary)
    IN  IF ~w1.ok
        THEN [res |-> Err(<<"WriteError">>), disk |-> w1.disk,
              writes |-> <<call(primary)>>]
        ELSE [res |-> IF w2.ok THEN Ok(<<>>) ELSE Err(<<"WriteError">>),
              disk |-> w2.disk, writes |-> <<call(primary), call(secondary)>>]

\* NexusChild::write_label: what it returns, the disk it leaves and the
\* write_at calls it made
write_label_to(d, g, l) ==
    LET primary == get_primary_data(l, g.block_len)
        secondary == get_secondary_data(l, g.block_len)
        failed(w, calls) ==
            [res |-> Err(<<"WriteError">>), disk |-> w.disk, writes |-> calls]
        done(w, calls) == [res |-> Ok(<<>>), disk |-> w.disk, writes |-> calls]
        one(data) == LET w == child_write_at(d, g, data) IN
                     IF w.ok THEN done(w, <<call(data)>>)
                     ELSE failed(w, <<call(data)>>)
    IN  CASE l.status = "Both" ->
                [res |-> Ok(<<>>), disk |-> d, writes |-> <<>>]
          [] l.status = "Primary" -> one(secondary)
          [] l.status = "Secondary" -> one(primary)
          [] l.status = "Neither" ->
                LET w1 == child_write_at(d, g, primary) IN
                IF ~w1.ok THEN failed(w1, <<call(primary)>>)
                ELSE LET w2 == child_write_at(w1.disk, g, secondary)
                         calls == <<call(primary), call(secondary)>>
                     IN  IF w2.ok THEN done(w2, calls) ELSE failed(w2, calls)

\* no write_label in the step that led here
NoWrite == [label |-> <<>>, writes |-> <<>>]

\* ---- the label operations of one child
\* NexusChild::new_label: a label for this child's block device
new_label(size, guid_meta, guid_data) ==
    /\ label' = generate_label(geom.uuid, geom.block_len, geom.num_blocks,
                               size, guid_meta, guid_data, geom.checked)
    /\ wrote' = NoResult
    /\ probed' = NoResult
    /\ written' = NoWrite
    /\ UNCHANGED <<geom, disk>>

write_label ==
    /\ label.ok
    /\ \E w \in {write_label_to(disk, geom, label.val)} :
         /\ disk' = w.disk
         /\ wrote' = w.res
         /\ written' = [label |-> label.val, writes |-> w.writes]
    /\ probed' = NoResult
    /\ UNCHANGED <<geom, label>>

probe_label ==
    /\ probed' = probe_label_of(disk, geom)
    /\ written' = NoWrite
    /\ UNCHANGED <<geom, disk, label, wrote>>

\* NexusChild::update_label without the metadata index: the label found on
\* the disk is kept, and its missing half written, when probe_label returns
\* one with the two partitions; a new label is written over any other label
\* and over an invalid one; any other error of probe_label is returned
update_label(size, guid_meta, guid_data) ==
    \E found \in {probe_label_of(disk, geom)} :
      LET keep == found.ok /\ check_maya_partitions(found.val)
          fresh == generate_label(geom.uuid, geom.block_len, geom.num_blocks,
                                  size, guid_meta, guid_data, geom.checked)
          l == IF keep THEN found ELSE fresh
      IN
      /\ probed' = found
      /\ IF ~found.ok /\ found.err[1] # "InvalidLabel"
         THEN /\ label' = found
              /\ wrote' = NoResult
              /\ written' = NoWrite
              /\ UNCHANGED disk
         ELSE IF ~l.ok
         THEN /\ label' = l
              /\ wrote' = NoResult
              /\ written' = NoWrite
              /\ UNCHANGED disk
         ELSE \E w \in {write_label_to(disk, geom, l.val)} :
                /\ disk' = w.disk
                /\ wrote' = w.res
                /\ written' = [label |-> l.val, writes |-> w.writes]
                /\ label' = IF w.res.ok THEN l ELSE w.res
      /\ UNCHANGED geom

\* the device loses the block of the primary header (half = 1) or of the
\* secondary header (half = 2), which reads as zeroes from then on
lose_header(half) ==
    LET offset == IF half = 1 THEN geom.block_len
                  ELSE (geom.num_blocks - 1) * geom.block_len
    IN  /\ offset \in DOMAIN disk
        /\ disk' = [o \in DOMAIN disk \ {offset} |-> disk[o]]
        /\ wrote' = NoResult
        /\ probed' = NoResult
        /\ written' = NoWrite
        /\ UNCHANGED <<geom, label>>

\* the child devices of the model: too small for GptHeader::new, one block
\* too small for the two partitions, just large enough, and larger
BlockLens == {512, 4096}
MinBlocks(block_size) ==
    get_blocks(DATA_OFFSET, block_size)
        + get_blocks(METADATA_PARTITION_SIZE, block_size)
        + get_blocks(PARTITION_TABLE_SIZE, block_size) + 2
BlockCounts(block_size) ==
    {TinyBlocks, MinBlocks(block_size) - 1, MinBlocks(block_size),
     MinBlocks(block_size) + SpareBlocks}
Geometries ==
    UNION {{[block_len |-> b, num_blocks |-> n, uuid |-> "uuid-0",
              checked |-> c] : n \in BlockCounts(b), c \in BOOLEAN} :
           b \in BlockLens}
\* the requested nexus sizes, in bytes
Sizes(block_size) == {0, 1, 2 * block_size, 2 * SpareBlocks * block_size}
\* the GUIDs two calls of new_label may draw: for MayaMeta and for MayaData
RandomGuids == {<<"rnd-1", "rnd-2">>, <<"rnd-3", "rnd-4">>}

\* a child with a blank disk, before any label operation
InitLabel ==
    /\ disk = BlankDisk
    /\ label = NoResult
    /\ wrote = NoResult
    /\ probed = NoResult
    /\ written = NoWrite

\* the label part of the state where no label operation takes place
NoLabel ==
    /\ geom = [block_len |-> 512, num_blocks |-> MinBlocks(512),
               uuid |-> "uuid-0", checked |-> FALSE]
    /\ InitLabel


(***************************************************************************)
(* The labels of the children of one nexus: create_child_labels and        *)
(* validate_child_labels (nexus_label.rs).  The metadata index             *)
(* (NexusMetaData) is not part of the sources: a child carries a flag      *)
(* telling whether a valid index is on its disk, and writing the index     *)
(* succeeds or fails as the caller of the model chooses.                   *)
(***************************************************************************)
\* a child: its block device, the backend behind it ("null" discards every
\* write and reads back no label), its disk, and its metadata index
Kid(g, backend) ==
    [geom |-> g, backend |-> backend, disk |-> BlankDisk, index |-> FALSE,
     metadata_index_lba |-> 0]

\* the disk of a child after write_label, and what write_label returned
kid_write_label(kid, l) ==
    LET w == write_label_to(kid.disk, kid.geom, l) IN
    [res |-> w.res,
     kid |-> IF kid.backend = "null" THEN kid ELSE [kid EXCEPT !.disk = w.disk]]

\* NexusMetaData::get_index_lba: the index sits at the start of MayaMeta
get_index_lba(l) == partition_offset(l, MayaMeta)

\* NexusChild::create_label: new_label, write_label, initialise_index
create_label(kid, size, rnd, index_ok) ==
    The({
        IF ~l.ok THEN [res |-> l, kid |-> kid]
        ELSE The({
            IF ~w.res.ok THEN [res |-> w.res, kid |-> w.kid]
            ELSE IF ~index_ok
            THEN [res |-> Err(<<"IndexCreate">>), kid |-> w.kid]
            ELSE [res |-> l,
                  kid |-> [w.kid EXCEPT !.index = (kid.backend # "null")]]
            : w \in {kid_write_label(kid, l.val)}})
        : l \in {generate_label(kid.geom.uuid, kid.geom.block_len,
                                kid.geom.num_blocks, size, rnd, rnd,
                                kid.geom.checked)}})

\* NexusChild::validate_label
validate_label(kid) ==
    The({
        IF ~l.ok THEN l
        ELSE IF ~check_maya_partitions(l.val)
        THEN Err(InvalidLabel(<<"IncorrectPartitions">>))
        ELSE IF l.val.status # "Both"
        THEN Err(InvalidLabel(<<"LabelRedundancy">>))
        ELSE l
        : l \in {probe_label_of(kid.disk, kid.geom)}})

\* unique: the common value of a non-empty list of offsets
unique(offsets) ==
    IF offsets # <<>> /\ \A i \in 1..Len(offsets) : offsets[i] = offsets[1]
    THEN Ok(offsets[1])
    ELSE Err(<<"DataOffsetMismatch">>)

\* the loop over the children: acc holds the children, the offsets and the
\* labels collected so far, the running size and the first error
LoopStart(ks, size) ==
    [kids |-> ks, offsets |-> <<>>, labels |-> <<>>, size |-> size,
     res |-> Ok(<<>>)]

\* the part of the loop body after the label of child i was obtained
collect(acc, i, kid, l, checked) ==
    LET lba == get_index_lba(l)
        kid1 == IF kid.metadata_index_lba = 0 /\ lba.ok
                THEN [kid EXCEPT !.metadata_index_lba = lba.val] ELSE kid
        offset == partition_offset(l, MayaData)
        psize == partition_size(l, MayaData, checked)
        acc1 == [acc EXCEPT !.kids[i] = kid1]
    IN  IF kid.metadata_index_lba = 0 /\ ~lba.ok
        THEN [acc EXCEPT !.res = Err(<<"IndexAddress">>)]
        ELSE IF ~offset.ok THEN [acc1 EXCEPT !.res = offset]
        ELSE IF ~psize.ok THEN [acc1 EXCEPT !.res = psize]
        ELSE [acc1 EXCEPT !.offsets = Append(@, offset.val),
                          !.labels = Append(@, l),
                          !.size = u64_min(acc.size, psize.val)]

RECURSIVE create_loop(_, _, _, _, _, _)
create_loop(acc, i, size, rnd, index_fail, checked) ==
    IF i > Len(acc.kids) \/ ~acc.res.ok THEN acc
    ELSE The({
        IF ~c.res.ok THEN [acc EXCEPT !.kids[i] = c.kid, !.res = c.res]
        ELSE The({create_loop(a, i + 1, size, rnd, index_fail, checked) :
                    a \in {collect([acc EXCEPT !.kids[i] = c.kid], i, c.kid,
                                   c.res.val, checked)}})
        : c \in {create_label(acc.kids[i], size, rnd, index_fail # i)}})

RECURSIVE validate_loop(_, _, _)
validate_loop(acc, i, checked) ==
    IF i > Len(acc.kids) \/ ~acc.res.ok THEN acc
    ELSE The({
        IF ~l.ok THEN [acc EXCEPT !.res = l]
        ELSE The({
            IF ~a.kids[i].index /\ a.res.ok
            THEN [a EXCEPT !.res = Err(<<"InvalidIndex">>)]
            ELSE validate_loop(a, i + 1, checked)
            : a \in {collect(acc, i, acc.kids[i], l.val, checked)}})
        : l \in {validate_label(acc.kids[i])}})

\* the end of both functions: the common data offset and the nexus size
set_offset_and_size(op, acc) ==
    LET common == unique(acc.offsets) IN
    /\ kids' = acc.kids
    /\ IF ~acc.res.ok
       THEN nlabel' = [nlabel EXCEPT !.op = op, !.res = acc.res,
                                     !.labels = acc.labels]
       ELSE IF ~common.ok
       THEN nlabel' = [nlabel EXCEPT !.op = op, !.res = common,
                                     !.labels = acc.labels]
       ELSE nlabel' = [nlabel EXCEPT
                !.op = op, !.res = Ok(<<>>), !.labels = acc.labels,
                !.data_ent_offset = common.val \div nlabel.block_len,
                !.block_count = acc.size \div nlabel.block_len]

create_child_labels(rnd, index_fail) ==
    \E acc \in {create_loop(LoopStart(kids, nlabel.size), 1, nlabel.size,
                             rnd, index_fail, nlabel.checked)} :
        set_offset_and_size("create_child_labels", acc)

validate_child_labels ==
    \E acc \in {validate_loop(LoopStart(kids, nlabel.size), 1,
                               nlabel.checked)} :
        set_offset_and_size("validate_child_labels", acc)

\* no nexus labels: the state where these operations do not take place
NoNexusLabel ==
    [size |-> 0, block_len |-> 512, checked |-> FALSE, data_ent_offset |-> 0,
     block_count |-> 0, op |-> "none", res |-> NoResult, labels |-> <<>>]

NexusBlockCounts(block_size) ==
    {MinBlocks(block_size) - 1, MinBlocks(block_size),
     MinBlocks(block_size) + 1, MinBlocks(block_size) + SpareBlocks}
Backends == {"store", "null"}
\* the requested nexus sizes, in bytes: none, less and more than a child holds
NexusSizes(block_size) == {0, 2 * block_size, 2 * SpareBlocks * block_size}
\* the partition GUIDs drawn while the labels of a nexus are created
NexusRandomGuid == "rnd-1"

\* the children part of the state where no nexus label operation takes place
NoKids ==
    /\ kids = <<>>
    /\ nlabel = NoNexusLabel

(***************************************************************************)
(* The locks of the children (nexus_bdev_children.rs).  A child is an      *)
(* Arc<Mutex<NexusChild>>; an operation locks the child it works on and    *)
(* holds the guard until the end of the block the guard is declared in.    *)
(* offline_child, fault_child and online_child are followed here up to the *)
(* await they are suspended in, and from there to their return.            *)
(***************************************************************************)
NoLk == [op |-> "none", child |-> "none", at |-> "idle", held |-> {}, cancelled |-> {}]

NoLock == lk = NoLk

\* the operation op on the child is suspended at the await, holding the
\* guards of the children in held
Suspended(op, child, at, held, cancelled) ==
    [op |-> op, child |-> child, at |-> at, held |-> held, cancelled |-> cancelled]

\* the guards alive across the await of reconfigure in fault_child: the
\* guard of lines 313-322 is declared in the match arm that awaits
fault_child_guards(name) == {name}
\* variant: the guard is dropped before the await
no_guards(name) == {}

\* offline_child up to its await of reconfigure (lines 251-269): the guard
\* of lines 261-262 ends with the if block
offline_child_begin(name) ==
    /\ lk.at = "idle"
    /\ LET c == cancel_child_rebuild_jobs(jobs, name) IN
       IF children[name] = NoChild THEN
           /\ jobs' = c.jobs
           /\ lastOp' = Result("offline_child", name, "ChildNotFound", "none", FALSE)
           /\ UNCHANGED <<children, child_count, bdevs, chan, unsynced, lk>>
       ELSE
           /\ children' = [children EXCEPT ![name] = child_offline(@)]
           /\ jobs' = c.jobs
           /\ lk' = Suspended("offline_child", name, "reconfigure", {}, c.cancelled)
           /\ UNCHANGED <<child_count, bdevs, chan, unsynced, lastOp>>

\* fault_child up to its await of reconfigure (lines 277-318).  The guards
\* collected in healthy_children are dropped at line 305 or by the return.
fault_child_begin(name, reason) ==
    /\ lk.at = "idle"
    /\ IF child_count < 2 THEN
           /\ lastOp' = Result("fault_child", name, "RemoveLastChild", "none", FALSE)
           /\ UNCHANGED <<children, child_count, bdevs, jobs, chan, unsynced, lk>>
       ELSE IF last_healthy(children, name) THEN
           /\ lastOp' = Result("fault_child", name, "FaultingLastHealthyChild",
                               "none", FALSE)
           /\ UNCHANGED <<children, child_count, bdevs, jobs, chan, unsynced, lk>>
       ELSE
           LET c == cancel_child_rebuild_jobs(jobs, name) IN
           IF children[name] = NoChild THEN
               /\ jobs' = start_rebuild_jobs(children, c.jobs, c.cancelled)
               /\ lastOp' = Result("fault_child", name, "ChildNotFound", "none", FALSE)
               /\ UNCHANGED <<children, child_count, bdevs, chan, unsynced, lk>>
           ELSE IF children[name].state = "Faulted" THEN
               /\ jobs' = start_rebuild_jobs(children, c.jobs, c.cancelled)
               /\ lastOp' = Result("fault_child", name, "Ok", "none", FALSE)
               /\ UNCHANGED <<children, child_count, bdevs, chan, unsynced, lk>>
           ELSE
               /\ children' = [children EXCEPT ![name] = child_fault(@, reason)]
               /\ jobs' = c.jobs
               /\ lk' = Suspended("fault_child", name, "reconfigure",
                                  fault_child_guards(name), c.cancelled)
               /\ UNCHANGED <<child_count, bdevs, chan, unsynced, lastOp>>

\* reconfigure returns: offline_child (lines 270-273) and fault_child (lines
\* 318-333) start the cancelled rebuilds again and return
reconfigure_done ==
    /\ lk.at = "reconfigure"
    /\ chan' = reconfigure(children)
    /\ jobs' = start_rebuild_jobs(children, jobs, lk.cancelled)
    /\ lastOp' = IF lk.op = "offline_child"
                 THEN Result("offline_child", lk.child, "Ok",
                             offline_child_status(children, children), TRUE)
                 ELSE Result("fault_child", lk.child, "Ok", "none", TRUE)
    /\ lk' = NoLk
    /\ UNCHANGED <<children, child_count, bdevs, unsynced>>

\* online_child up to its await of child.online (lines 339-347): the guard
\* of line 346 is held while the child is opened
online_child_begin(name) ==
    /\ lk.at = "idle"
    /\ IF children[name] = NoChild THEN
           /\ lastOp' = Result("online_child", name, "ChildNotFound", "none", FALSE)
           /\ UNCHANGED lk
       ELSE
           /\ lk' = Suspended("online_child", name, "open", {name}, {})
           /\ UNCHANGED lastOp
    /\ UNCHANGED <<children, child_count, bdevs, jobs, chan, unsynced>>

\* child.online returns: online_child goes on to its return (lines 347-358)
online_child_opened(open_ok, rebuild_ok) ==
    /\ lk.at = "open"
    /\ online_child(lk.child, open_ok, rebuild_ok)
    /\ lk' = NoLk

(***************************************************************************)
(* Specifications                                                          *)
(***************************************************************************)
\* the nexus after nexus_create: the children are registered and opened,
\* the channels are built from the open children
InitNexus ==
    /\ \E k \in 1..MaxInitChildren :
         LET reg == register_children(SubSeq(UriOrder, 1, k)) IN
         /\ children = open_all(reg.children)
         /\ child_count = reg.child_count
         /\ bdevs = {UriOrder[i] : i \in 1..k}
         /\ chan = reconfigure(open_all(reg.children))
    /\ jobs = NoJobs
    /\ unsynced = {}
    /\ lastOp = NoOp

InitIoIdle ==
    /\ io = NoIo
    /\ inject = NoInject
    /\ errs = [d \in Uris |-> 0]

Init ==
    /\ InitNexus
    /\ InitIoIdle
    /\ cfg = "Fault"
    /\ InitHandle
    /\ NoLabel
    /\ NoKids
    /\ NoChannel
    /\ NoCommand
    /\ NoSignal
    /\ NoSgl
    /\ DeviceCreated
    /\ NoLock

\* the child operations of a nexus, with every outcome of the environment
Next ==
    \/ \E u \in Uris, nr \in BOOLEAN, o \in AddOutcomes, rb \in BOOLEAN :
         \* rebuild_ok only matters when a rebuild is asked for
         /\ (o # "ok" \/ nr) => rb
         /\ o # "ok" => nr
         /\ add_child(u, nr, o, rb)
         /\ UNCHANGED <<ioVars, devVars>>
    \/ \E u \in Keys, ok \in BOOLEAN : remove_child(u, ok) /\ UNCHANGED <<ioVars, devVars>>
    \/ \E u \in Keys : offline_child(u) /\ UNCHANGED <<ioVars, devVars>>
    \/ \E u \in Keys, r \in FaultReasons : fault_child(u, r) /\ UNCHANGED <<ioVars, devVars>>
    \/ \E u \in Keys, a \in BOOLEAN, b \in BOOLEAN :
         \* rebuild_ok only matters when the child could be opened
         /\ ~a => b
         /\ online_child(u, a, b)
         /\ UNCHANGED <<ioVars, devVars>>
    \/ \E u \in Uris : rebuild_completed(u) /\ UNCHANGED <<ioVars, devVars>>
    \/ \E u \in Uris : rebuild_failed(u) /\ UNCHANGED <<ioVars, devVars>>

Spec == Init /\ [][Next]_vars

\* the operations that lock a child, followed across their awaits, next to
\* add_child without a rebuild
NextK ==
    \/ \E u \in Uris :
         /\ lk.at = "idle"
         /\ add_child(u, TRUE, "ok", TRUE)
         /\ UNCHANGED <<ioVars, devVars>>
    \/ \E u \in Keys : offline_child_begin(u) /\ UNCHANGED <<ioVars, handleVars, labelVars, nlVars, chanVars, dsmVars, sigVars, sglVars, ctrlrVars>>
    \/ \E u \in Keys, r \in FaultReasons : fault_child_begin(u, r) /\ UNCHANGED <<ioVars, handleVars, labelVars, nlVars, chanVars, dsmVars, sigVars, sglVars, ctrlrVars>>
    \/ reconfigure_done /\ UNCHANGED <<ioVars, handleVars, labelVars, nlVars, chanVars, dsmVars, sigVars, sglVars, ctrlrVars>>
    \/ \E u \in Keys : online_child_begin(u) /\ UNCHANGED <<ioVars, handleVars, labelVars, nlVars, chanVars, dsmVars, sigVars, sglVars, ctrlrVars>>
    \/ \E a \in BOOLEAN, b \in BOOLEAN :
         /\ ~a => b
         /\ online_child_opened(a, b)
         /\ UNCHANGED <<ioVars, handleVars, labelVars, nlVars, chanVars, dsmVars, sigVars, sglVars, ctrlrVars>>

SpecK == Init /\ [][NextK]_vars

InitIO ==
    /\ InitNexus
    /\ InitIoIdle
    /\ cfg \in ErrActions
    /\ InitHandle
    /\ NoLabel
    /\ NoKids
    /\ NoChannel
    /\ NoCommand
    /\ NoSignal
    /\ NoSgl
    /\ DeviceCreated
    /\ NoLock

\* nexus I/O with error injection, next to the child operations that succeed
NextIO ==
    \/ \E kind \in {"read", "write"}, r \in 1..MaxRetries :
         nexus_io(kind, r) /\ UNCHANGED devVars
    \/ \E t \in Keys : child_response(t) /\ UNCHANGED devVars
    \/ io_done /\ UNCHANGED devVars
    \/ \E d \in Uris, n \in 1..MaxRetries :
         inject_error(d, n) /\ UNCHANGED devVars
    \/ \E d \in Uris : expire(d) /\ UNCHANGED devVars
    \/ add_child(SpareUri, FALSE, "ok", TRUE) /\ UNCHANGED <<ioVars, devVars>>
    \/ rebuild_completed(SpareUri) /\ UNCHANGED <<ioVars, devVars>>
    \/ \E k \in MapKeys(children) : remove_child(k, TRUE) /\ UNCHANGED <<ioVars, devVars>>

SpecIO == InitIO /\ [][NextIO]_vars

\* no nexus: the state of the handle specification outside the handle
NoNexus ==
    /\ children = EmptyMap
    /\ child_count = 0
    /\ bdevs = {}
    /\ chan = {}
    /\ jobs = NoJobs
    /\ unsynced = {}
    /\ lastOp = NoOp
    /\ InitIoIdle
    /\ cfg = "Fault"

InitH ==
    /\ NoNexus
    /\ InitHandle
    /\ NoLabel
    /\ NoKids
    /\ NoChannel
    /\ NoCommand
    /\ NoSignal
    /\ NoSgl
    /\ DeviceCreated
    /\ NoLock

\* what the driver's submit routine returns
Rcs == {0, -ENOMEM, -EINVAL}

Offsets == {0, BlockLen + 1}
Lengths == {BlockLen, BlockLen + 1}
FullRanges == {0, MAX_RANGES - 1, MAX_RANGES}

\* the calls on one device handle, the driver's completions and the reset
NextH ==
    \/ \E n \in 0..2, z \in BOOLEAN, rc \in Rcs :
         readv_blocks(n, z, rc) /\ UNCHANGED <<nexusVars, ioVars, labelVars, nlVars, chanVars, dsmVars, sigVars, sglVars, ctrlrVars, lockVars>>
    \/ \E n \in 0..2, z \in BOOLEAN, rc \in Rcs :
         writev_blocks(n, z, rc) /\ UNCHANGED <<nexusVars, ioVars, labelVars, nlVars, chanVars, dsmVars, sigVars, sglVars, ctrlrVars, lockVars>>
    \/ \E f \in FullRanges, p \in BOOLEAN, rc \in Rcs :
         unmap_blocks(f, p, rc) /\ UNCHANGED <<nexusVars, ioVars, labelVars, nlVars, chanVars, dsmVars, sigVars, sglVars, ctrlrVars, lockVars>>
    \/ \E f \in FullRanges, p \in BOOLEAN, rc \in Rcs :
         write_zeroes(f, p, rc) /\ UNCHANGED <<nexusVars, ioVars, labelVars, nlVars, chanVars, dsmVars, sigVars, sglVars, ctrlrVars, lockVars>>
    \/ \E o \in Offsets, l \in Lengths, rc \in Rcs :
         read_at(o, l, rc) /\ UNCHANGED <<nexusVars, ioVars, labelVars, nlVars, chanVars, dsmVars, sigVars, sglVars, ctrlrVars, lockVars>>
    \/ \E o \in Offsets, l \in Lengths, rc \in Rcs :
         write_at(o, l, rc) /\ UNCHANGED <<nexusVars, ioVars, labelVars, nlVars, chanVars, dsmVars, sigVars, sglVars, ctrlrVars, lockVars>>
    \/ \E rc \in {0, -ENOMEM} : nvme_admin(rc) /\ UNCHANGED <<nexusVars, ioVars, labelVars, nlVars, chanVars, dsmVars, sigVars, sglVars, ctrlrVars, lockVars>>
    \/ \E c \in driver, ok \in BOOLEAN :
         io_completed(c, ok) /\ UNCHANGED <<nexusVars, ioVars, labelVars, nlVars, chanVars, dsmVars, sigVars, sglVars, ctrlrVars, lockVars>>
    \/ \E found \in BOOLEAN : reset(found) /\ UNCHANGED <<nexusVars, ioVars, labelVars, nlVars, chanVars, dsmVars, sigVars, sglVars, ctrlrVars, lockVars>>
    \/ \E rc \in {0, -ENOMEM} : reset_done(rc) /\ UNCHANGED <<nexusVars, ioVars, labelVars, nlVars, chanVars, dsmVars, sigVars, sglVars, ctrlrVars, lockVars>>

SpecH == InitH /\ [][NextH]_vars

InitL ==
    /\ NoNexus
    /\ InitHandle
    /\ geom \in Geometries
    /\ InitLabel
    /\ NoKids
    /\ NoChannel
    /\ NoCommand
    /\ NoSignal
    /\ NoSgl
    /\ DeviceCreated
    /\ NoLock

\* the label operations on one child, in any order
NextL ==
    \/ \E size \in Sizes(geom.block_len), r \in RandomGuids :
         new_label(size, r[1], r[2]) /\ UNCHANGED <<nexusVars, ioVars, handleVars, nlVars, chanVars, dsmVars, sigVars, sglVars, ctrlrVars, lockVars>>
    \/ write_label /\ UNCHANGED <<nexusVars, ioVars, handleVars, nlVars, chanVars, dsmVars, sigVars, sglVars, ctrlrVars, lockVars>>
    \/ probe_label /\ UNCHANGED <<nexusVars, ioVars, handleVars, nlVars, chanVars, dsmVars, sigVars, sglVars, ctrlrVars, lockVars>>
    \/ \E size \in Sizes(geom.block_len), r \in RandomGuids :
         update_label(size, r[1], r[2]) /\ UNCHANGED <<nexusVars, ioVars, handleVars, nlVars, chanVars, dsmVars, sigVars, sglVars, ctrlrVars, lockVars>>
    \/ \E half \in 1..2 : lose_header(half) /\ UNCHANGED <<nexusVars, ioVars, handleVars, nlVars, chanVars, dsmVars, sigVars, sglVars, ctrlrVars, lockVars>>

SpecL == InitL /\ [][NextL]_vars

\* ---- probe_label over the contents a device may hold
\* a header block of the device: as the label has it ("good"), of another
\* disk ("other": valid, a different GUID), pointing elsewhere ("moved": it
\* parses, its locations do not fit the device), with a stale checksum
\* ("torn"), zeroed ("lost"), or announcing a partition table of more than
\* 16 KiB: 129 entries of 128 bytes ("large"), or 4 entries of 2^30 + 32
\* bytes, 2^32 + 128 bytes in all ("wrapped")
HeaderStates == {"good", "other", "moved", "torn", "lost", "large", "wrapped"}
craft_header(l, h, how) ==
    CASE how = "other" -> header_checksum([h EXCEPT !.guid = "uuid-1"])
      [] how = "large" -> header_checksum([h EXCEPT !.num_entries = 129, !.table_crc = GptEntry_checksum(l.partitions, 129)])
      [] how = "wrapped" -> header_checksum([h EXCEPT !.num_entries = 4, !.entry_size = 2^30 + 32, !.table_crc = GptEntry_checksum(l.partitions, 4)])
      [] how = "moved" -> header_checksum([h EXCEPT !.lba_alt = @ + 1])
      [] how = "torn"  -> [h EXCEPT !.guid = "uuid-1"]
      [] OTHER -> h

put_header(d, offset, l, h, how) ==
    IF how = "lost" THEN [o \in DOMAIN d \ {offset} |-> d[o]]
    ELSE [o \in DOMAIN d \cup {offset} |->
             IF o = offset
             THEN [kind |-> "hdr", bytes |-> serialize_header(craft_header(l, h, how))]
             ELSE d[o]]

\* the disk of a child that holds the label l, its two header blocks in the
\* given states, and its primary partition table zeroed or not
craft_disk(g, l, first, second, table) ==
    LET whole == write_label_to(BlankDisk, g, l).disk
        one == put_header(whole, g.block_len, l, l.primary, first)
        two == put_header(one, (g.num_blocks - 1) * g.block_len, l, l.secondary, second)
        entries == {l.primary.lba_table * g.block_len + (i - 1) * ENTRY_BYTES : i \in 1..Len(l.partitions)}
    IN  IF table THEN two ELSE [o \in DOMAIN two \ entries |-> two[o]]

Contents(g) ==
    LET l == generate_label(g.uuid, g.block_len, g.num_blocks, 2 * g.block_len, "rnd-1", "rnd-2", g.checked)
    IN  IF ~l.ok THEN {BlankDisk}
        ELSE {craft_disk(g, l.val, first, second, table) : first \in HeaderStates, second \in HeaderStates, table \in BOOLEAN}

InitP ==
    /\ NoNexus
    /\ InitHandle
    /\ geom \in Geometries
    /\ disk \in Contents(geom)
    /\ label = NoResult
    /\ wrote = NoResult
    /\ probed = NoResult
    /\ written = NoWrite
    /\ NoKids
    /\ NoChannel
    /\ NoCommand
    /\ NoSignal
    /\ NoSgl
    /\ DeviceCreated
    /\ NoLock

\* the label is probed or updated, and a header block may be lost in between
NextP ==
    \/ probe_label /\ UNCHANGED <<nexusVars, ioVars, handleVars, nlVars, chanVars, dsmVars, sigVars, sglVars, ctrlrVars, lockVars>>
    \/ \E size \in Sizes(geom.block_len), r \in RandomGuids :
         update_label(size, r[1], r[2]) /\ UNCHANGED <<nexusVars, ioVars, handleVars, nlVars, chanVars, dsmVars, sigVars, sglVars, ctrlrVars, lockVars>>
    \/ \E half \in 1..2 : lose_header(half) /\ UNCHANGED <<nexusVars, ioVars, handleVars, nlVars, chanVars, dsmVars, sigVars, sglVars, ctrlrVars, lockVars>>

SpecP == InitP /\ [][NextP]_vars

\* the rebuilds of a nexus: children are added, rebuilds are started and
\* paused, and end
NextR ==
    \/ \E u \in Uris, nr \in BOOLEAN, o \in {"open_failed", "ok"}, rb \in BOOLEAN :
         /\ (o # "ok" \/ nr) => rb
         /\ o # "ok" => nr
         /\ add_child(u, nr, o, rb)
         /\ UNCHANGED <<ioVars, devVars>>
    \/ \E u \in Keys, ok \in BOOLEAN : remove_child(u, ok) /\ UNCHANGED <<ioVars, devVars>>
    \/ \E u \in Keys : nexus_start_rebuild(u) /\ UNCHANGED <<ioVars, devVars>>
    \/ \E u \in Keys : pause_rebuild(u) /\ UNCHANGED <<ioVars, devVars>>
    \/ \E u \in Uris : rebuild_completed(u) /\ UNCHANGED <<ioVars, devVars>>
    \/ \E u \in Uris : rebuild_failed(u) /\ UNCHANGED <<ioVars, devVars>>

SpecR == Init /\ [][NextR]_vars

\* k * RANGE_MAX_BLOCKS + r, which is k * 2^32 - k + r
blocks(k, r) == wrapping_add(wrapping_sub(<<0, 0, k, 0>>, u64(k)), u64(r))

U64_MAX == <<U16 - 1, U16 - 1, U16 - 1, U16 - 1>>

\* block counts: one range, a full range, two ranges, MAX_RANGES ranges, one
\* range too many, and the counts next to 2^64
BlockCountsU ==
    {blocks(0, 1), blocks(1, 0), blocks(1, 1), blocks(MAX_RANGES - 1, 1),
     blocks(MAX_RANGES, 0), blocks(MAX_RANGES, 1),
     wrapping_sub(U64_MAX, RANGE_MAX_BLOCKS),
     wrapping_add(wrapping_sub(U64_MAX, RANGE_MAX_BLOCKS), u64(1)),
     U64_MAX}

Lbas == {u64(0), blocks(1, 9)}

\* unmap_blocks and write_zeroes on one device handle, with the completions
\* of the driver and the reset that clears the queue pair
InitU ==
    /\ NoNexus
    /\ InitHandle
    /\ NoLabel
    /\ NoKids
    /\ NoChannel
    /\ NoCommand
    /\ NoSignal
    /\ NoSgl
    /\ DeviceCreated
    /\ NoLock

NextU ==
    \/ \E l \in Lbas, n \in BlockCountsU, rc \in {0, -ENOMEM}, ck \in BOOLEAN :
         dsm_unmap_blocks(l, n, rc, ck) /\ UNCHANGED <<nexusVars, ioVars, labelVars, nlVars, chanVars, sigVars, sglVars, ctrlrVars, lockVars>>
    \/ \E l \in Lbas, n \in BlockCountsU, rc \in {0, -ENOMEM}, ck \in BOOLEAN :
         dsm_write_zeroes(l, n, rc, ck) /\ UNCHANGED <<nexusVars, ioVars, labelVars, nlVars, chanVars, sigVars, sglVars, ctrlrVars, lockVars>>
    \/ \E c \in driver :
         ~Dead /\ io_completed(c, TRUE) /\ UNCHANGED <<nexusVars, ioVars, labelVars, nlVars, chanVars, dsmVars, sigVars, sglVars, ctrlrVars, lockVars>>
    \/ ~Dead /\ next_arg <= MaxUnmapCalls /\ reset(TRUE) /\ UNCHANGED <<nexusVars, ioVars, labelVars, nlVars, chanVars, dsmVars, sigVars, sglVars, ctrlrVars, lockVars>>

SpecU == InitU /\ [][NextU]_vars

\* the life of the I/O channel of a controller
InitC ==
    /\ NoNexus
    /\ InitHandle
    /\ NoLabel
    /\ NoKids
    /\ NoChannel
    /\ NoCommand
    /\ NoSignal
    /\ NoSgl
    /\ DeviceCreated
    /\ NoLock

NextC ==
    \/ \E f \in CreateSteps : create_channel(f) /\ UNCHANGED <<nexusVars, ioVars, handleVars, labelVars, nlVars, dsmVars, sigVars, sglVars, ctrlrVars, lockVars>>
    \/ channel_dropped /\ UNCHANGED <<nexusVars, ioVars, handleVars, labelVars, nlVars, dsmVars, sigVars, sglVars, ctrlrVars, lockVars>>
    \/ channel_reset /\ UNCHANGED <<nexusVars, ioVars, handleVars, labelVars, nlVars, dsmVars, sigVars, sglVars, ctrlrVars, lockVars>>
    \/ \E f \in ReinitSteps : channel_reinitialize(f) /\ UNCHANGED <<nexusVars, ioVars, handleVars, labelVars, nlVars, dsmVars, sigVars, sglVars, ctrlrVars, lockVars>>
    \/ destroy_channel /\ UNCHANGED <<nexusVars, ioVars, handleVars, labelVars, nlVars, dsmVars, sigVars, sglVars, ctrlrVars, lockVars>>

SpecC == InitC /\ [][NextC]_vars

\* signals delivered to the process, in any interleaving of their handlers
InitS ==
    /\ NoNexus
    /\ InitHandle
    /\ NoLabel
    /\ NoKids
    /\ NoChannel
    /\ NoCommand
    /\ NoSignal
    /\ NoSgl
    /\ DeviceCreated
    /\ NoLock

NextS ==
    \/ \E h \in Handlers : signal_delivered(h) /\ UNCHANGED <<nexusVars, ioVars, handleVars, labelVars, nlVars, chanVars, dsmVars, sglVars, ctrlrVars, lockVars>>
    \/ \E h \in Handlers : signal_load(h) /\ UNCHANGED <<nexusVars, ioVars, handleVars, labelVars, nlVars, chanVars, dsmVars, sglVars, ctrlrVars, lockVars>>
    \/ \E h \in Handlers : signal_store(h) /\ UNCHANGED <<nexusVars, ioVars, handleVars, labelVars, nlVars, chanVars, dsmVars, sglVars, ctrlrVars, lockVars>>
    \/ \E h \in Handlers : signal_send(h) /\ UNCHANGED <<nexusVars, ioVars, handleVars, labelVars, nlVars, chanVars, dsmVars, sglVars, ctrlrVars, lockVars>>
    \/ signal_trampoline /\ UNCHANGED <<nexusVars, ioVars, handleVars, labelVars, nlVars, chanVars, dsmVars, sglVars, ctrlrVars, lockVars>>
    \/ reactors_stop /\ UNCHANGED <<nexusVars, ioVars, handleVars, labelVars, nlVars, chanVars, dsmVars, sglVars, ctrlrVars, lockVars>>

SpecS == InitS /\ [][NextS]_vars

\* the iovecs of a context: one to MaxIov elements of 0 to MaxIovLen bytes
Iovecs == UNION {[1..n -> 0..MaxIovLen] : n \in 1..MaxIov}

\* one I/O context and the calls of the driver on its cursor: the offset is
\* inside the payload, and a segment is asked for while bytes remain
InitG ==
    /\ NoNexus
    /\ InitHandle
    /\ NoLabel
    /\ NoKids
    /\ NoChannel
    /\ NoCommand
    /\ NoSignal
    /\ NoSgl
    /\ DeviceCreated
    /\ NoLock

NextG ==
    \/ \E lens \in Iovecs :
         new_io_ctx(lens) /\ UNCHANGED <<nexusVars, ioVars, handleVars, labelVars, nlVars, chanVars, dsmVars, sigVars, ctrlrVars, lockVars>>
    \/ \E o \in 0..(SumLen(sgl.iov) - 1) :
         nvme_queued_reset_sgl(o) /\ UNCHANGED <<nexusVars, ioVars, handleVars, labelVars, nlVars, chanVars, dsmVars, sigVars, ctrlrVars, lockVars>>
    \/ /\ sgl.o + SumLen(SegLens(sgl.segs)) < SumLen(sgl.iov)
       /\ nvme_queued_next_sge
       /\ UNCHANGED <<nexusVars, ioVars, handleVars, labelVars, nlVars, chanVars, dsmVars, sigVars, ctrlrVars, lockVars>>

SpecG == InitG /\ [][NextG]_vars

\* one handle of a device that is used, destroyed, and used again
InitD ==
    /\ NoNexus
    /\ InitHandle
    /\ NoLabel
    /\ NoKids
    /\ NoChannel
    /\ NoCommand
    /\ NoSignal
    /\ NoSgl
    /\ DeviceCreated
    /\ NoLock

NextD ==
    \/ \E o \in Offsets, l \in Lengths, rc \in Rcs :
         read_at(o, l, rc) /\ UNCHANGED <<nexusVars, ioVars, labelVars, nlVars, chanVars, dsmVars, sigVars, sglVars, ctrlrVars, lockVars>>
    \/ \E rc \in {0, -ENOMEM} : nvme_admin(rc) /\ UNCHANGED <<nexusVars, ioVars, labelVars, nlVars, chanVars, dsmVars, sigVars, sglVars, ctrlrVars, lockVars>>
    \/ \E c \in driver, ok \in BOOLEAN :
         io_completed(c, ok) /\ UNCHANGED <<nexusVars, ioVars, labelVars, nlVars, chanVars, dsmVars, sigVars, sglVars, ctrlrVars, lockVars>>
    \/ reset(device_lookup(ctrlr)) /\ UNCHANGED <<nexusVars, ioVars, labelVars, nlVars, chanVars, dsmVars, sigVars, sglVars, ctrlrVars, lockVars>>
    \/ \E rc \in {0, -ENOMEM} : reset_done(rc) /\ UNCHANGED <<nexusVars, ioVars, labelVars, nlVars, chanVars, dsmVars, sigVars, sglVars, ctrlrVars, lockVars>>
    \/ device_destroy /\ UNCHANGED <<nexusVars, ioVars, labelVars, nlVars, chanVars, dsmVars, sigVars, sglVars, lockVars>>

SpecD == InitD /\ [][NextD]_vars

\* a nexus that was just constructed: no child is registered; some devices
\* exist already
InitO ==
    /\ children = EmptyMap
    /\ child_count = 0
    /\ bdevs \in SUBSET Uris
    /\ chan = {}
    /\ jobs = NoJobs
    /\ unsynced = {}
    /\ lastOp = NoOp
    /\ InitIoIdle
    /\ cfg = "Fault"
    /\ InitHandle
    /\ NoLabel
    /\ NoKids
    /\ NoChannel
    /\ NoCommand
    /\ NoSignal
    /\ NoSgl
    /\ DeviceCreated
    /\ NoLock

DevNames ==
    {<<>>} \cup {<<a>> : a \in Uris}
        \cup {<<a, b>> : a \in Uris, b \in Uris}

\* the construction of a nexus: registrations, then try_open_children
NextO ==
    \/ \E d \in DevNames : nexus_register_children(d) /\ UNCHANGED <<ioVars, devVars>>
    \/ \E u \in Uris, ok \in BOOLEAN : create_and_register(u, ok) /\ UNCHANGED <<ioVars, devVars>>
    \/ \E o \in SUBSET Keys : try_open_children(o) /\ UNCHANGED <<ioVars, devVars>>

SpecO == InitO /\ [][NextO]_vars

\* a nexus of one or more children of its block length, with blank disks
InitN ==
    /\ NoNexus
    /\ InitHandle
    /\ NoLabel
    /\ NoChannel
    /\ NoCommand
    /\ NoSignal
    /\ NoSgl
    /\ DeviceCreated
    /\ NoLock
    /\ \E b \in BlockLens, c \in BOOLEAN, k \in 1..MaxLabelKids :
         /\ kids \in [1..k ->
                {Kid([block_len |-> b, num_blocks |-> n, uuid |-> "uuid-0",
                      checked |-> c], e) :
                    n \in NexusBlockCounts(b), e \in Backends}]
         /\ \E size \in NexusSizes(b) :
              nlabel = [NoNexusLabel EXCEPT !.size = size, !.block_len = b,
                                           !.checked = c]

NextN ==
    \/ \E f \in 0..Len(kids) :
         create_child_labels(NexusRandomGuid, f)
         /\ UNCHANGED <<nexusVars, ioVars, handleVars, labelVars, chanVars, dsmVars, sigVars, sglVars, ctrlrVars, lockVars>>
    \/ validate_child_labels
         /\ UNCHANGED <<nexusVars, ioVars, handleVars, labelVars, chanVars, dsmVars, sigVars, sglVars, ctrlrVars, lockVars>>

SpecN == InitN /\ [][NextN]_vars

Dispatched == io'.attempt # io.attempt /\ io'.kind # "none"

C4_ErrorStoreFaultsChild ==
    [][ /\ \A d \in Uris :
              (cfg = "Fault" /\ errs'[d] > errs[d] /\ errs'[d] > MaxErrors
                    /\ Cardinality(OpenKeys(children)) >= 2)
              => \A k \in MapKeys(children') :
                    children'[k].name = d
                    => /\ children'[k].state = "Faulted"
                       /\ k \notin chan'
                       /\ status(children') = "Degraded"
        /\ \A k \in MapKeys(children) \cap MapKeys(children') :
              (children[k].state = "Open" /\ children'[k].state = "Faulted"
                    /\ children'[k].reason = "IoError")
              => (cfg = "Fault" /\ errs'[children[k].name] > MaxErrors)
        /\ Dispatched
              => \A k \in io'.targets :
                    ~(children'[k] # NoChild /\ children'[k].state = "Faulted"
                        /\ children'[k].reason = "IoError")
      ]_vars

\* C5: with set_retries(r) a nexus read or write that meets k consecutive
\* injected failures on one child succeeds if k < r and fails if k >= r.
C5_Retries ==
    (io.result # "none" /\ io.fails = io.injfails)
        => (io.result = "ok" <=> io.injfails < io.r)

\* an I/O with two attempts allowed succeeded after one injected failure
C5_Witness ==
    /\ io.result = "ok"
    /\ io.r = 2
    /\ io.injfails = 1

(***************************************************************************)
(* Properties of the NVMe device handle (SpecH)                            *)
(***************************************************************************)
\* a call is made on the handle in this step
Called == lastCall'.arg # lastCall.arg

\* C6: after reset on a handle with M readv/writev I/Os in flight, exactly M
\* I/O callbacks fire, each with an NvmeError status and all before the reset
\* callback, which reports Success once; afterwards the channel has a queue
\* pair again and accepts new I/O.
C6_ResetAbortsInFlight ==
    /\ rst.state = "running" => cbs[rst.arg].n = 0
    /\ (rst.state = "done" /\ cbs[rst.arg].status = "Success")
        => /\ cbs[rst.arg].n = 1
           /\ rst.aborted = Cardinality(rst.args)
           /\ \A a \in rst.args : cbs[a] = [n |-> 1, status |-> "NvmeError"]
           /\ \A c \in driver : ~c.aborted
           /\ qpair

\* a reset with two I/Os in flight succeeded and an identify issued after it
\* completed successfully
C6_Witness ==
    /\ rst.state = "done"
    /\ cbs[rst.arg].status = "Success"
    /\ Cardinality(rst.args) = 2
    /\ lastCall.op = "nvme_admin"
    /\ lastCall.arg > rst.arg
    /\ rets[lastCall.arg].res = "Ok"

\* C7 as stated: every I/O call, with any arguments, made while the queue
\* pair is cleared returns a Dispatch error carrying ENODEV, submits nothing,
\* and leaves the in-flight counter and the free contexts unchanged.
C7_ClearedQpairRefusesAll ==
    [][ (Called /\ lastCall'.op \in IoCalls /\ ~qpair)
        => /\ lastCall'.res = "Err"
           /\ lastCall'.err = "ENODEV"
           /\ driver' = driver
           /\ num_io' = num_io
           /\ pool_free' = pool_free
      ]_vars

\* C7, amended: the same for every I/O call whose arguments pass the
\* argument check of the operation, which comes before the channel check.
C7_ClearedQpairRefusesValid ==
    [][ (Called /\ lastCall'.op \in IoCalls /\ ~qpair /\ lastCall'.valid)
        => /\ lastCall'.res = "Err"
           /\ lastCall'.err = "ENODEV"
           /\ driver' = driver
           /\ num_io' = num_io
           /\ pool_free' = pool_free
      ]_vars

\* an I/O call with valid arguments was refused with ENODEV during a reset
C7_Witness ==
    /\ lastCall.op \in IoCalls
    /\ lastCall.valid
    /\ ~lastCall.qp
    /\ lastCall.err = "ENODEV"
    /\ rst.state = "running"

\* C8: the callback of a readv, writev, unmap or write_zeroes call that
\* returned Ok is invoked once, when the driver completes the command, with
\* the argument given at dispatch; that completion decrements the in-flight
\* counter once and returns the context to the pool once.  A call that
\* returned Err never has its callback invoked.
C8_CallbackOnce ==
    /\ [](\A a \in Args :
            /\ cbs[a].n <= 1
            /\ rets[a].res = "Err" => cbs[a].n = 0
            /\ (rets[a].kind = "ctx" /\ rets[a].res = "Ok")
                => (cbs[a].n = 1 <=> \A c \in driver : c.arg # a))
    /\ [][ \A a \in Args :
             (rets[a].kind = "ctx" /\ cbs'[a].n # cbs[a].n)
             => /\ rets[a].res = "Ok"
                /\ cbs'[a].n = cbs[a].n + 1
                /\ num_io' = num_io - 1
                /\ pool_free' = pool_free + 1
         ]_vars

\* a call with a callback returned Ok and its callback reported Success
C8_Witness ==
    \E a \in Args :
        /\ rets[a] = [kind |-> "ctx", res |-> "Ok"]
        /\ cbs[a] = [n |-> 1, status |-> "Success"]
        /\ num_io = 0
        /\ pool_free = PoolSize

\* C9 as stated: a context taken for a call whose submission the driver
\* refuses is returned before the Dispatch error, so the contexts taken from
\* the pool are those of the I/Os accepted by the driver and not completed.
C9_ContextsMatchAccepted ==
    PoolSize - pool_free = Cardinality(CtxCmds(driver))

(***************************************************************************)
(* Properties of the nexus label (SpecL)                                   *)
(***************************************************************************)
\* C10: whenever new_label returned a label L, write_label was called with
\* L and probe_label was called after it, probe_label returned a label with
\* the MBR, primary header, secondary header and partitions of L and with
\* status Both.
C10_LabelRoundTrip ==
    (label.ok /\ wrote # NoResult /\ probed # NoResult) =>
        /\ probed.ok
        /\ probed.val.mbr = label.val.mbr
        /\ probed.val.primary = label.val.primary
        /\ probed.val.secondary = label.val.secondary
        /\ probed.val.partitions = label.val.partitions
        /\ probed.val.status = "Both"

\* C11: every label new_label returned is well-formed: the header locations
\* mirror each other, the primary ends one block before the device does,
\* both header checksums and the partition table checksum validate, and
\* lba_start <= MayaMeta.start <= MayaMeta.end < MayaData.start
\*           <= MayaData.end <= lba_end.
C11_GeneratedLabelWellFormed ==
    label.ok =>
        LET l == label.val
            meta == l.partitions[1]
            data == l.partitions[2]
        IN  /\ l.primary.lba_self = 1
            /\ l.primary.lba_alt + 1 = geom.num_blocks
            /\ l.secondary.lba_self = l.primary.lba_alt
            /\ l.secondary.lba_alt = 1
            /\ l.secondary.lba_table = l.primary.lba_end + 1
            /\ l.primary.self_checksum
                    = header_checksum(l.primary).self_checksum
            /\ l.secondary.self_checksum
                    = header_checksum(l.secondary).self_checksum
            /\ l.primary.table_crc
                    = GptEntry_checksum(l.partitions, l.primary.num_entries)
            /\ l.secondary.table_crc = l.primary.table_crc
            /\ Len(l.partitions) = 2
            /\ ~u64_lt(meta.ent_start, l.primary.lba_start)
            /\ ~u64_lt(meta.ent_end, meta.ent_start)
            /\ u64_lt(meta.ent_end, data.ent_start)
            /\ ~u64_lt(data.ent_end, data.ent_start)
            /\ ~u64_lt(l.primary.lba_end, data.ent_end)

\* the bytes of each half of a label on a device of that block size
PrimaryRegion(l, block_size) ==
    [offset |-> 0, len |-> l.primary.lba_start * block_size]
SecondaryRegion(l, block_size) ==
    [offset |-> l.secondary.lba_table * block_size,
     len |-> (l.secondary.lba_self - l.secondary.lba_table + 1) * block_size]
Covered(calls, o) ==
    \E i \in 1..Len(calls) :
        calls[i].offset <= o /\ o < calls[i].offset + calls[i].len
HeaderAt(d, header, block_size) ==
    disk_read(d, header.lba_self * block_size)
        = [kind |-> "hdr", bytes |-> serialize_header(header)]

\* C13: every step that runs write_label hands to the device exactly the
\* halves the status of the label marks as missing: nothing for Both, the
\* secondary region for Primary, the primary region for Secondary, and for
\* Neither the primary region and then the secondary region (the second
\* write is left out only when the first one failed); every byte outside
\* the regions written is as it was before, and after a successful call the
\* header of each half written is on the disk.
C13_WriteLabelFrame ==
    [][written' # NoWrite =>
        LET l == written'.label
            w == written'.writes
            primary == PrimaryRegion(l, geom.block_len)
            secondary == SecondaryRegion(l, geom.block_len)
        IN  /\ l.status = "Both" => w = <<>> /\ disk' = disk
            /\ l.status = "Primary" => w = <<secondary>>
            /\ l.status = "Secondary" => w = <<primary>>
            /\ l.status = "Neither" =>
                   \/ w = <<primary, secondary>>
                   \/ w = <<primary>> /\ ~wrote'.ok
            /\ \A o \in DOMAIN disk \cup DOMAIN disk' :
                   ~Covered(w, o) => disk_read(disk', o) = disk_read(disk, o)
            /\ wrote'.ok =>
                   /\ l.status \in {"Secondary", "Neither"} =>
                          HeaderAt(disk', l.primary, geom.block_len)
                   /\ l.status \in {"Primary", "Neither"} =>
                          HeaderAt(disk', l.secondary, geom.block_len)
    ]_vars

\* update_label found the primary half only and wrote the secondary half
C13_Witness ==
    /\ written # NoWrite
    /\ written.label.status = "Primary"
    /\ Len(written.writes) = 1
    /\ wrote.ok
    /\ probed.ok

(***************************************************************************)
(* Properties of the labels of a nexus' children (SpecN)                   *)
(***************************************************************************)
\* the bytes of the MayaData partition of a label: its blocks ent_start to
\* ent_end, both included
MayaDataBytes(l) ==
    LET e == get_partition(l, MayaData).val IN
    (e.ent_end - e.ent_start + 1) * l.block_size

\* C12: after create_child_labels or validate_child_labels succeeded, the
\* data offset times the block length is the byte offset at which MayaData
\* starts on every child, and the nexus size in bytes is at most the
\* requested size and at most the MayaData size of every child.
C12_DataOffsetAndSize ==
    (nlabel.op \in {"create_child_labels", "validate_child_labels"}
        /\ nlabel.res.ok) =>
        /\ Len(nlabel.labels) = Len(kids)
        /\ \A i \in 1..Len(kids) :
             LET l == nlabel.labels[i] IN
             /\ nlabel.data_ent_offset * nlabel.block_len
                    = get_partition(l, MayaData).val.ent_start * l.block_size
             /\ nlabel.block_count * nlabel.block_len <= MayaDataBytes(l)
        /\ nlabel.block_count * nlabel.block_len <= nlabel.size

\* validate_child_labels succeeded on two children of different sizes and
\* the smaller data partition, not the requested size, bounds the nexus
C12_Witness ==
    /\ nlabel.op = "validate_child_labels"
    /\ nlabel.res.ok
    /\ Len(kids) = 2
    /\ kids[1].geom.num_blocks # kids[2].geom.num_blocks
    /\ nlabel.block_count > 0
    /\ nlabel.block_count * nlabel.block_len < nlabel.size
\* the label read back from child i is the label the call wrote to it
ReadsBack(i) ==
    LET back == probe_label_of(kids[i].disk, kids[i].geom)
        l == nlabel.labels[i]
    IN  /\ back.ok
        /\ back.val.mbr = l.mbr
        /\ back.val.primary = l.primary
        /\ back.val.secondary = l.secondary
        /\ back.val.partitions = l.partitions

\* C14: create_child_labels accepts no child whose label does not read back:
\* the call returns Ok only when every child returns the label written to it,
\* and when a child that was written returns another label or none the call
\* fails with ReReadError.
C14_ReReadError ==
    nlabel.op = "create_child_labels" =>
        /\ nlabel.res.ok => \A i \in 1..Len(kids) : ReadsBack(i)
        /\ (\E i \in 1..Len(nlabel.labels) : ~ReadsBack(i)) =>
               nlabel.res = Err(<<"ReReadError">>)

(***************************************************************************)
(* Properties of the child operations of a nexus (Spec)                    *)
(***************************************************************************)
\* C16: a remove_child that names the only child left in the children map
\* returns an error and leaves the children map, the child count and the
\* rebuild jobs as they were, and no remove_child leaves the nexus without
\* any child.
C16_LastChildIsKept ==
    [][\A u \in Keys, ok \in BOOLEAN :
         remove_child(u, ok) =>
            /\ MapKeys(children') # {}
            /\ MapKeys(children) = {u} =>
                  /\ lastOp'.res \notin {"Ok"}
                  /\ UNCHANGED <<children, child_count, jobs>>]_vars

\* the nexus has a child of that name, or a child under that key
IsChild(map, u) == map[u] # NoChild \/ \E k \in MapKeys(map) : map[k].name = u

\* C17: a remove_child whose uri is not a child of the nexus returns success
\* and leaves the children map and the child count as they were, whatever
\* the number of children.
C17_RemoveUnknownChild ==
    [][\A u \in Keys, ok \in BOOLEAN :
         (remove_child(u, ok) /\ ~IsChild(children, u)) =>
            /\ lastOp'.res = "Ok"
            /\ UNCHANGED <<children, child_count>>]_vars

\* C18: fault_child returns RemoveLastChild when the nexus has fewer than
\* two children, and FaultingLastHealthyChild when the child it names is the
\* only child in the open state; a call that returns one of the two cancels
\* no rebuild job, changes no child and does not reconfigure the channels.
C18_FaultRefused ==
    [][\A u \in Keys, r \in FaultReasons :
         fault_child(u, r) =>
            /\ child_count < 2 => lastOp'.res = "RemoveLastChild"
            /\ (child_count >= 2 /\ OpenKeys(children) = {u}) =>
                  lastOp'.res = "FaultingLastHealthyChild"
            /\ lastOp'.res \in {"RemoveLastChild", "FaultingLastHealthyChild"} =>
                  /\ UNCHANGED <<children, child_count, jobs, chan>>
                  /\ ~lastOp'.reconf]_vars

ChildOps ==
    {"add_child", "remove_child", "offline_child", "online_child", "fault_child"}

\* C19: every add_child, remove_child, offline_child, online_child and
\* fault_child that returns Ok and changed the children map (the set of
\* children or the state of a child) has reconfigured the channels of the
\* nexus before it returned.
C19_ReconfigureOnChange ==
    [][(lastOp'.op \in ChildOps /\ lastOp'.res = "Ok" /\ children' # children)
          => lastOp'.reconf]_vars

(***************************************************************************)
(* Properties of the rebuild jobs (SpecR)                                  *)
(***************************************************************************)
\* the jobs other than the job of dst are as they were
OtherJobsKept(dst) == \A x \in Uris \ {dst} : jobs'[x] = jobs[x]

\* C20: the registry holds at most one job for a destination and every job
\* has one source, a child other than its destination: add_child with
\* norebuild leaves the registry as it was; start_rebuild(dst) changes the
\* entry of dst only, and only when dst had no job; pause_rebuild(dst) keeps
\* the job of dst and its source and leaves every other job as it was, also
\* a job with the same source.
C20_OneJobPerDestination ==
    [][/\ \A d \in Uris :
            jobs'[d] # NoJob => jobs'[d].src \in Uris \ {d}
       /\ \A u \in Uris, o \in AddOutcomes :
            add_child(u, TRUE, o, TRUE) => jobs' = jobs
       /\ \A d \in Keys :
            nexus_start_rebuild(d) =>
               /\ OtherJobsKept(d)
               /\ d \in Uris => (jobs[d] # NoJob => jobs'[d] = jobs[d])
               /\ d \in Uris => (lastOp'.res = "Ok" => jobs'[d] # NoJob)
       /\ \A d \in Keys :
            pause_rebuild(d) =>
               /\ OtherJobsKept(d)
               /\ d \in Uris => (jobs[d] # NoJob =>
                     jobs'[d] # NoJob /\ jobs'[d].src = jobs[d].src)
               /\ d \in Uris => (jobs[d] = NoJob => jobs'[d] = NoJob)]_vars

\* the job of one destination is paused and a job of another destination
\* runs from the same source
C20_Witness ==
    \E a \in Uris, b \in Uris :
        /\ a # b
        /\ jobs[a] # NoJob /\ jobs[a].state = "Paused"
        /\ jobs[b] # NoJob /\ jobs[b].state = "Running"
        /\ jobs[a].src = jobs[b].src
        /\ lastOp.op = "start_rebuild"

\* C21: a rebuild job that reaches Completed leaves its destination, until
\* then Faulted(OutOfSync) when it was added by add_child, in the open state
\* and the channels reconfigured; a job that reaches Failed, and an add_child
\* whose rebuild could not be started, leave the destination
\* Faulted(RebuildFailed); no other step of a nexus with rebuild jobs, as
\* long as the job is Running or Paused, makes a child Open.
C21_RebuildOutcome ==
    [][/\ \A d \in Uris :
            rebuild_completed(d) =>
               /\ children'[d].state = "Open"
               /\ chan' = reconfigure(children')
               /\ lastOp'.reconf
               /\ jobs'[d] = NoJob
       /\ \A d \in Uris :
            rebuild_failed(d) =>
               /\ children'[d].state = "Faulted"
               /\ children'[d].reason = "RebuildFailed"
       /\ \A u \in Uris, rb \in BOOLEAN :
            (add_child(u, FALSE, "ok", rb) /\ lastOp'.res = "Ok" /\ jobs'[u] = NoJob) =>
               /\ children'[u].state = "Faulted"
               /\ children'[u].reason = "RebuildFailed"
       /\ \A u \in Uris, rb \in BOOLEAN :
            (add_child(u, FALSE, "ok", rb) /\ lastOp'.res = "Ok" /\ jobs'[u] # NoJob) =>
               /\ children'[u].state = "Faulted"
               /\ children'[u].reason = "OutOfSync"
       /\ \A k \in Keys :
            (children[k].state # "Open" /\ children'[k].state = "Open") =>
               /\ k \in Uris
               /\ rebuild_completed(k)]_vars

\* the rebuild that add_child started for a child has completed: the child
\* is open and takes part in the channels
C21_Witness ==
    /\ lastOp.op = "rebuild_completed"
    /\ lastOp.arg \in Uris
    /\ children[lastOp.arg].state = "Open"
    /\ lastOp.arg \in chan
    /\ \E k \in Keys : children[k].state = "Faulted"
                          /\ children[k].reason = "RebuildFailed"

C24_FailedAddDestroys ==
    [][\A u \in Uris, n \in BOOLEAN, o \in AddOutcomes, r \in BOOLEAN :
          (/\ add_child(u, n, o, r)
           /\ lastOp'.res \in {"ChildGeometry", "ChildMissing", "OpenChild"})
              => /\ bdevs' = bdevs
                 /\ children' = children
                 /\ child_count' = child_count]_vars

(***************************************************************************)
(* Properties of the ranges of unmap_blocks and write_zeroes (SpecU).      *)
(***************************************************************************)
\* the call of dsm asked for at least one block and for no more blocks than
\* MAX_RANGES ranges hold
FitsRanges == gt(dsm.n, u64(0)) /\ ~gt(dsm.n, blocks(MAX_RANGES, 0))

\* the ranges were filled and the command was handed to the driver
CommandBuilt == dsm.ctx /\ dsm.res \in {"Ok", "Err"}

\* C23: for unmap_blocks(lba, N) and write_zeroes(lba, N) with N >= 1 that
\* needs at most 256 ranges, the command carries exactly ceil(N / (2^32 - 1))
\* ranges; every range but possibly the last has the length 2^32 - 1, the
\* ranges are contiguous from lba and their lengths sum to N.
C23_RangesTileTheBlocks ==
    (dsm.op \in {"unmap_blocks", "write_zeroes"} /\ FitsRanges /\ CommandBuilt)
        => /\ dsm.count \in 1..MAX_RANGES
           /\ gt(dsm.n, blocks(dsm.count - 1, 0))
           /\ ~gt(dsm.n, blocks(dsm.count, 0))
           /\ Len(dsm.filled) = dsm.count
           /\ dsm.filled[1].starting_lba = dsm.lba
           /\ \A i \in 1..(dsm.count - 1) :
                 /\ dsm.filled[i].length = RANGE_MAX_BLOCKS
                 /\ dsm.filled[i + 1].starting_lba
                       = wrapping_add(dsm.filled[i].starting_lba,
                                      dsm.filled[i].length)
           /\ gt(dsm.filled[dsm.count].length, u64(0))
           /\ ~gt(dsm.filled[dsm.count].length, RANGE_MAX_BLOCKS)
           /\ wrapping_add(blocks(dsm.count - 1, 0),
                           dsm.filled[dsm.count].length) = dsm.n

\* write_zeroes of 255 full ranges and one block went to the driver in
\* MAX_RANGES ranges
C23_Witness ==
    /\ dsm.op = "write_zeroes"
    /\ dsm.res = "Ok"
    /\ dsm.n = blocks(MAX_RANGES - 1, 1)
    /\ dsm.count = MAX_RANGES
    /\ dsm.filled[MAX_RANGES] = Range(wrapping_add(dsm.lba, blocks(MAX_RANGES - 1, 0)), u64(1))

\* C28: for every 64-bit N whose range count exceeds 256, unmap_blocks and
\* write_zeroes fail with UnmapDispatch{EINVAL} before an I/O context is
\* acquired or a range is filled; the range count does not wrap for N near
\* 2^64.
C28_TooManyRangesRefused ==
    (dsm.op \in {"unmap_blocks", "write_zeroes"}
       /\ gt(dsm.n, blocks(MAX_RANGES, 0)))
        => /\ dsm.res = "Err"
           /\ dsm.err = "EINVAL"
           /\ ~dsm.ctx
           /\ dsm.filled = <<>>

(***************************************************************************)
(* Properties of the calls on a device handle (SpecH).                     *)
(***************************************************************************)
\* C27: when the driver's submit routine returns -ENOMEM for read_at or
\* write_at, the queue-full condition is reported to the caller: the call
\* returns with an error rather than waiting, and the in-flight counter of
\* the channel is not left incremented.
C27_QueueFullReported ==
    [][\A o \in Offsets, l \in Lengths :
          (/\ read_at(o, l, -ENOMEM) \/ write_at(o, l, -ENOMEM)
           /\ bytes_to_blocks(o, l)[1]
           /\ check_channel_for_io(qpair) = 0)
              => /\ rets'[next_arg].res = "Err"
                 /\ num_io' = num_io]_vars

(***************************************************************************)
(* Properties of the I/O channel of a controller (SpecC).                  *)
(***************************************************************************)
\* the driver resources a channel holds
Resources(c) == <<c.qpairs, c.in_group, c.poll_groups, c.pollers, c.inners>>

\* C22: when create_channel fails at any step, every resource the earlier
\* steps acquired (queue pair, poll group, poller, channel context) is
\* released when the failure is returned: the resources that exist are the
\* ones that existed before the call.
C22_FailedCreateReleases ==
    [][\A f \in CreateSteps :
          (create_channel(f) /\ nch'.state = "failed")
              => Resources(nch') = Resources(nch)]_vars

\* the driver calls of the last operation on the channel, in order
Calls(c) == [i \in 1..Len(c.trace) |-> c.trace[i].call]

\* C31: destroy_channel releases in the order: queue pair removed from the
\* poll group, poller unregistered, poll group destroyed, queue pair freed;
\* with the queue pair cleared it skips the two queue pair steps only, and
\* the poller and the poll group go exactly once.
C31_DestroyOrder ==
    [][destroy_channel =>
          /\ Calls(nch') = IF nch.qpair # 0
                           THEN <<"poll_group_remove", "poller_unregister",
                                  "poll_group_destroy", "free_io_qpair">>
                           ELSE <<"poller_unregister", "poll_group_destroy">>
          /\ nch'.pollers = nch.pollers - 1
          /\ nch'.poll_groups = nch.poll_groups - 1
          /\ nch'.qpairs = nch.qpairs \ {nch.qpair}
          /\ nch'.in_group = nch.in_group \ {nch.qpair}]_vars

\* a channel whose queue pair a reset had cleared was destroyed: nothing of
\* it is left
C31_Witness ==
    /\ nch.state = "none"
    /\ Calls(nch) = <<"poller_unregister", "poll_group_destroy">>
    /\ Resources(nch) = Resources(NoChan)
    /\ nch.next > 1

\* C32: over the lifetime of a channel the poller is registered before the
\* queue pair is first used and unregistered strictly after the queue pair
\* is freed: no queue pair of the channel exists while the poller is
\* unregistered, neither between two operations nor after a driver call
\* inside one.
C32_PollerOutlivesQpair ==
    /\ nch.qpairs # {} => nch.pollers > 0
    /\ \A i \in 1..Len(nch.trace) :
          /\ nch.trace[i].call \in {"poll_group_add", "connect_io_qpair"}
                => nch.trace[i].pollers > 0
          /\ nch.trace[i].call = "poller_unregister"
                => nch.trace[i].qpairs = {}

\* C30: when reinitialize fails, the queue pair of the channel stays cleared,
\* so that a dispatch fails with ENODEV, and the queue pair of the attempt is
\* no longer in the poll group nor allocated; when it succeeds the new queue
\* pair is installed in the poll group the channel already has, and no poll
\* group, poller or context is created.
C30_Reinitialize ==
    [][\A f \in ReinitSteps :
          channel_reinitialize(f) =>
              /\ nch'.state = "created"
              /\ nch'.poll_groups = nch.poll_groups
              /\ nch'.pollers = nch.pollers
              /\ nch'.inners = nch.inners
              /\ (f # "none") <=> (nch'.rc # 0)
              /\ IF nch'.rc # 0
                 THEN /\ nch'.qpair = 0
                      /\ check_channel_for_io(nch'.qpair # 0) = ENODEV
                      /\ nch'.qpairs = nch.qpairs
                      /\ nch'.in_group = nch.in_group
                 ELSE /\ nch'.qpair \notin nch.qpairs
                      /\ check_channel_for_io(nch'.qpair # 0) = 0
                      /\ nch'.qpairs = nch.qpairs \cup {nch'.qpair}
                      /\ nch'.in_group = nch.in_group \cup {nch'.qpair}]_vars

\* reinitialize failed after the queue pair of the attempt was allocated: the
\* channel has no queue pair and holds its poll group
C30_Witness ==
    /\ nch.state = "created"
    /\ nch.rc = -EINVAL
    /\ nch.qpair = 0
    /\ nch.next > 2
    /\ nch.in_group = {}
    /\ nch.poll_groups = 1

(***************************************************************************)
(* Properties of the signal handling (SpecS).                              *)
(***************************************************************************)
\* C26: however many SIGINT and SIGTERM signals are delivered and however
\* the invocations of their handler interleave, at most one shutdown
\* request is sent to the master reactor.
C26_OneShutdownRequest == sig.requests <= 1

(***************************************************************************)
(* Properties of the scatter-gather cursor (SpecG).                        *)
(***************************************************************************)
\* the bytes of the payload before element e (counted from 1)
Before(e) == SumLen(SubSeq(sgl.iov, 1, e - 1))

\* the bytes handed out by the first i segments since the last reset_sgl
HandedOut(i) == SumLen(SegLens(SubSeq(sgl.segs, 1, i)))

\* C29: for an iovec of lengths l_0..l_{n-1} and an offset o inside the
\* payload, reset_sgl(o) followed by next_sge calls yields segments that
\* tile the bytes from o to the end of the payload in order, each inside one
\* element, and no assertion of the cursor trips; reset_sgl(o), whenever it
\* is called, leaves the cursor at the one position of byte o.
C29_SegmentsTile ==
    sgl.last \in {"reset", "next"}
        => /\ ~sgl.asserted
           /\ \A i \in 1..Len(sgl.segs) :
                 /\ sgl.segs[i].start >= 0
                 /\ sgl.segs[i].len >= 0
                 /\ sgl.segs[i].start + sgl.segs[i].len
                       <= sgl.iov[sgl.segs[i].elem]
                 /\ Before(sgl.segs[i].elem) + sgl.segs[i].start
                       = sgl.o + HandedOut(i - 1)
           /\ sgl.o + HandedOut(Len(sgl.segs)) <= SumLen(sgl.iov)
           /\ Before(sgl.iovpos + 1) + sgl.iov_offset
                 = sgl.o + HandedOut(Len(sgl.segs))
           /\ sgl.o + HandedOut(Len(sgl.segs)) < SumLen(sgl.iov)
                 => sgl.iovpos < sgl.iovcnt
           /\ sgl.last = "reset"
                 => /\ sgl.segs = <<>>
                    /\ sgl.iov_offset < sgl.iov[sgl.iovpos + 1]

\* three segments were handed out from an offset inside the first element
\* and the payload is exhausted
C29_Witness ==
    /\ sgl.last = "next"
    /\ sgl.o > 0
    /\ Len(sgl.segs) = 3
    /\ sgl.segs[1].start = sgl.o
    /\ sgl.o + HandedOut(3) = SumLen(sgl.iov)
    /\ sgl.iovpos = sgl.iovcnt

(***************************************************************************)
(* Properties of a handle that outlives its device (SpecD).                *)
(***************************************************************************)
\* the read_at and nvme_identify_ctrlr calls made after the device was
\* destroyed
LaterCalls ==
    {a \in Args : /\ ~ctrlr.registered
                  /\ ctrlr.destroyed_at <= a
                  /\ a < next_arg
                  /\ rets[a].kind = "await"}

FirstHeader == GptHeader_from_slice(disk_read(disk, geom.block_len))
SecondHeader == GptHeader_from_slice(disk_read(disk, (geom.num_blocks - 1) * geom.block_len))
FirstValid == FirstHeader.ok /\ validate_primary_header(FirstHeader.val, geom.block_len, geom.num_blocks, geom.checked).ok
SecondValid == SecondHeader.ok /\ validate_secondary_header(SecondHeader.val, geom.block_len, geom.num_blocks, geom.checked).ok
HeadersAgree == consistency_check(FirstHeader.val, SecondHeader.val).ok
\* the MBR and the two header blocks can be read from the device
HeadersReadable ==
    /\ in_range(geom, 0, geom.block_len)
    /\ in_range(geom, geom.block_len, geom.block_len)
    /\ in_range(geom, (geom.num_blocks - 1) * geom.block_len, geom.block_len)

\* C33 as stated: the status of the label probe_label returns tells which header
\* blocks are valid: Both exactly when each header passes its own validation
\* and the two agree, Primary exactly when only the primary is valid (the
\* secondary is then derived from it), Secondary exactly when only the
\* secondary is valid (the primary is then derived from it), never Neither;
\* and probe_label fails with InvalidLabel when neither header is valid
\* (written = NoWrite: nothing was written since the label was probed)
C33_StatusTellsValidHalves ==
    (probed # NoResult /\ written = NoWrite) =>
      /\ probed.ok =>
           /\ probed.val.status = "Both" <=> (FirstValid /\ SecondValid /\ HeadersAgree)
           /\ probed.val.status = "Primary" <=> (FirstValid /\ ~SecondValid)
           /\ probed.val.status = "Secondary" <=> (~FirstValid /\ SecondValid)
           /\ probed.val.status # "Neither"
           /\ FirstValid => probed.val.primary = FirstHeader.val
           /\ SecondValid => probed.val.secondary = SecondHeader.val
           /\ ~SecondValid => probed.val.secondary = to_secondary(FirstHeader.val)
           /\ ~FirstValid => probed.val.primary = to_primary(SecondHeader.val)
      /\ (HeadersReadable /\ ~FirstValid /\ ~SecondValid) =>
           ~probed.ok /\ probed.err[1] = "InvalidLabel"
      /\ (FirstValid /\ SecondValid /\ ~HeadersAgree) => ~probed.ok

\* the label as probe_label would read it now
Found == probe_label_of(disk, geom)
\* probe_label finds a label with the MayaMeta and MayaData partitions
Canonical(found) == found.ok /\ check_maya_partitions(found.val)
\* update_label was the last label operation: probed is what its
\* probe_label returned, written what its write_label was given and wrote
AfterUpdate == probed # NoResult /\ written.label # <<>>

\* C34: update_label on a child whose label has one valid half and the
\* MayaMeta/MayaData layout, when it succeeds, leaves a label that
\* probe_label reads with status Both and with the GUID and the partitions
\* it had; update_label on a child whose label reads as Both with that
\* layout writes nothing
C34_RepairConverges ==
    (AfterUpdate /\ Canonical(probed)) =>
         /\ (probed.val.status \in {"Primary", "Secondary"} /\ wrote.ok) =>
               /\ Len(written.writes) = 1
               /\ Found.ok
               /\ Found.val.status = "Both"
               /\ Found.val.primary.guid = probed.val.primary.guid
               /\ Found.val.partitions = probed.val.partitions
         /\ probed.val.status = "Both" =>
               /\ wrote.ok
               /\ written.writes = <<>>
               /\ Found = probed

\* update_label has written the primary half of a label that had the
\* secondary half only, and the label now reads as Both
C34_Witness ==
    /\ Canonical(probed)
    /\ probed.val.status = "Secondary"
    /\ wrote.ok
    /\ Len(written.writes) = 1
    /\ written.writes[1].offset = 0
    /\ Found.ok
    /\ Found.val.status = "Both"

\* C35 as stated: probe_label rejects every header that parses and whose
\* num_entries * entry_size is more than 16 KiB, whether or not the product
\* fits 32 bits: reading the header fails with an error, and no label
\* probe_label returns has such a header
C35_OversizedTableRejected ==
    (probed # NoResult /\ written = NoWrite) =>
      /\ (FirstHeader.ok /\ table_too_large_u64(FirstHeader.val)) =>
           \E r \in {read_primary_header(disk_read(disk, geom.block_len), geom.block_len, geom.num_blocks, geom.checked)} :
               ~r.ok /\ r # MulPanic
      /\ (SecondHeader.ok /\ table_too_large_u64(SecondHeader.val)) =>
           \E r \in {read_secondary_header(disk_read(disk, (geom.num_blocks - 1) * geom.block_len), geom.block_len, geom.num_blocks, geom.checked)} :
               ~r.ok /\ r # MulPanic
      /\ probed.ok =>
           /\ ~table_too_large_u64(probed.val.primary)
           /\ ~table_too_large_u64(probed.val.secondary)

(***************************************************************************)
(* The size of the device a label is generated for (SpecL)                 *)
(***************************************************************************)
\* a step of new_label, whatever the size and the GUIDs
NewLabel == \E size \in Sizes(geom.block_len), r \in RandomGuids : new_label(size, r[1], r[2])

\* C36 as stated: new_label on a device with fewer blocks than the two
\* partition tables, the two headers, the MBR and the MayaMeta partition at
\* 1 MiB need returns DeviceTooSmall, also when the device has fewer blocks
\* than the partition table; and the last usable LBA of a label it returns,
\* N - table_blocks - 2, is not below the first usable LBA
C36_TooSmallRefused ==
    [][NewLabel =>
         /\ geom.num_blocks < MinBlocks(geom.block_len) => label' = Err(<<"DeviceTooSmall">>)
         /\ label'.ok => label'.val.primary.lba_end >= label'.val.primary.lba_start]_vars

(***************************************************************************)
(* The keys of the children map (Spec)                                     *)
(***************************************************************************)
\* C37 as stated: every child in the children map is stored under its own
\* name, so that a lookup of the name of a registered child finds it, and
\* child_count is the number of entries of the map
C37_ChildrenKeyedByName ==
    /\ \A k \in MapKeys(children) : children[k].name = k
    /\ child_count = Cardinality(MapKeys(children))

(***************************************************************************)
(* The rebuild jobs an operation on a child cancels (Spec)                 *)
(***************************************************************************)
\* a step of remove_child, offline_child or fault_child on the child u
CancellingOp(u) ==
    \/ \E ok \in BOOLEAN : remove_child(u, ok)
    \/ offline_child(u)
    \/ \E r \in FaultReasons : fault_child(u, r)

\* C39 as stated: after remove_child, offline_child or fault_child on a
\* child, whatever the call returned, every rebuild job that had the child
\* as its source and another child as its destination is running again,
\* provided a healthy child is left to rebuild it from
C39_CancelledJobsRestarted ==
    [][\A u \in Keys :
         CancellingOp(u) =>
            \A d \in cancel_child_rebuild_jobs(jobs, u).cancelled :
                Sources(children', d) # {} =>
                    jobs'[d] # NoJob /\ jobs'[d].state = "Running"]_vars

(***************************************************************************)
(* The in-flight counter of a channel (SpecH)                              *)
(***************************************************************************)
\* C38 as stated: the in-flight counter of the channel is the number of
\* commands the driver accepted and has not completed; it is never negative
\* and is zero when the driver holds no command
C38_CounterMatchesAccepted ==
    /\ num_io = Cardinality(driver)
    /\ num_io >= 0

(***************************************************************************)
(* The child locks across the awaits of an operation (SpecK)               *)
(***************************************************************************)
\* C40 as stated: while fault_child or offline_child is suspended in
\* reconfigure, or online_child in the open of the child, the operation
\* holds the lock of no child
C40_NoLockAcrossReconfigure ==
    lk.at \in {"reconfigure", "open"} => lk.held = {}

====
